---- MODULE Spec2Model ----
(***************************************************************************)
(* The per-video chat session of src/src/YoutubeChat.ts (class             *)
(* YoutubeChatV4, a Cloudflare Durable Object) as a state machine.         *)
(*                                                                         *)
(* Time.  Every stored time is kept as an offset from the current instant: *)
(* Date.now() is DateNow == 0, a time in the past is negative, a deadline  *)
(* in the future is positive, and Advance(d) lets d ms pass by shifting    *)
(* every stored time by -d.  A time that is only ever compared against a   *)
(* threshold saturates once it is past that threshold, which keeps the     *)
(* state space finite while behaviours stay infinite.                      *)
(*                                                                         *)
(* Concurrency.  The object runs one JavaScript thread.  alarm() and       *)
(* handleInit() run inside state.blockConcurrencyWhile, during which the   *)
(* runtime delivers no other event (request, socket event, alarm); this is *)
(* GateOpen.  handleWebsocket and the socket listeners are synchronous and *)
(* therefore atomic.  Timer callbacks (the drain chain) are allowed to run *)
(* at any time they are due, also while the gate is closed: the drain      *)
(* timers a tick starts belong to its critical section.                    *)
(***************************************************************************)
EXTENDS Integers, Sequences, FiniteSets, TLC

(***************************************************************************)
(* Program constants                                                       *)
(***************************************************************************)
BASE_CHAT_INTERVAL == 3000
MIN_CHAT_INTERVAL == 1000
MAX_CHAT_INTERVAL == 20000
OUTBOUND_INTERVAL_MS == 100
OUTBOX_MAX == 500
DEADMAN_MS == 45000
HEAL_BACKOFF_INIT == 5000
HEAL_BACKOFF_MAX == 60000
HEAL_COOLDOWN_MS == 5000
NOT_READY_DELAY == 2000
ERROR_DELAY == 5000
ATTACH_DELAY == 1000
FETCH_TIMEOUT_MS == 10000
BARRIER_GRACE_MS == 5000
DEDUP_MAX == 50
PING_INTERVAL_MS == 30000

(***************************************************************************)
(* Bounds of the model                                                     *)
(***************************************************************************)
\* connections (requests through createChatObject) over a run
MaxSockets == 2
\* alarm() invocations that could be in progress at once
MaxConcurrent == 2
\* how far past its threshold lastOkFetchTime is still told apart
PastSlack == 1000
\* how far back bootTime is told apart from the current instant
BootSlack == 2000
\* payloads remembered per socket by the observer of deliveries
MaxRecv == 4
\* chat messages the upstream serves over a run of SpecChat
MaxMsgs == 3
\* chat messages the upstream serves over a run of SpecOutbox
MaxOffered == 1500
\* distinct message ids the upstream serves
MaxIds == 52

Sockets == 1..MaxSockets
TickIds == 1..MaxConcurrent
AdapterNames == {"json", "irc"}
\* null, undefined and "" are all falsy and only ever tested for truthiness
NoToken == ""
\* the bootstrap fields before /init, those of the videoData posted to /init, and
\* those of the live_chat page a heal scrapes
NoKey == "none"
BootKey == "K0"
HealKey == "K1"

NoAlarm == -1
NoTimeout == -1
DateNow == 0

Max(a, b) == IF a > b THEN a ELSE b
Min(a, b) == IF a < b THEN a ELSE b

\* x shifted by d ms passing, not below floor
Shift(x, d, floor) == Max(x - d, floor)

(***************************************************************************)
(* Upstream data                                                           *)
(***************************************************************************)
\* One continuation variant of a continuations[] entry; continuation = NoToken
\* stands for a variant object without a (truthy) continuation field.
Cont(tok, ms) == [present |-> TRUE, continuation |-> tok, timeoutMs |-> ms]
NoCont == [present |-> FALSE, continuation |-> NoToken, timeoutMs |-> NoTimeout]
Entry(t, i, r) ==
    [timedContinuationData |-> t, invalidationContinuationData |-> i,
     reloadContinuationData |-> r]

\* a ?? b
Coalesce(a, b) == IF a.present THEN a ELSE b

\* A timestampUsec field: absent, or microseconds relative to the current instant.
NoTs == [present |-> FALSE, usec |-> 0]
TsUsec(ms) == [present |-> TRUE, usec |-> ms * 1000]

\* A chat action of the response.
\*   top     timestampUsec of a renderer that is a direct property of the action
\*           (action.liveChatTextMessageRenderer and its siblings), NoTs if none
\*   itemId  action[<first key>].item.id, NoToken if the item has no id property
\*   hasText the action has addChatItemAction.item.liveChatTextMessageRenderer
\*   rid, rts, text  that renderer's id, timestampUsec and run text
\*   badRuns the renderer's message.runs is not an array (map throws)
Action(top, itemId, rid, rts, text) ==
    [top |-> top, itemId |-> itemId, hasText |-> TRUE, rid |-> rid, rts |-> rts,
     text |-> text, badRuns |-> FALSE]
\* the shape the platform sends
Upstream(rid, rts, text) == Action(NoTs, NoToken, rid, rts, text)

Data(conts, scan, actions) ==
    [continuations |-> conts, scan |-> scan, actions |-> actions]

(***************************************************************************)
(* Outbound envelopes                                                      *)
(***************************************************************************)
\* { debug: true, message }
Debug(m) == [debug |-> TRUE, message |-> m]
\* { type: 'message', message, id, author, unix }
Message(text, id, unix) == [type |-> "message", message |-> text, id |-> id, unix |-> unix]
Greeting(name) == Debug("Connected. Listening for chat... (adapter=" \o name \o ")")
\* { type: 'ping' }
Ping == [type |-> "ping"]
IsMessage(payload) == "type" \in DOMAIN payload /\ payload.type = "message"

(***************************************************************************)
(* Pure helpers of YoutubeChatV4                                           *)
(***************************************************************************)
clampNone(ms) == ms
clamp(ms) == Max(MIN_CHAT_INTERVAL, Min(MAX_CHAT_INTERVAL, ms))

\* The variant `c?.timedContinuationData ?? c?.invalidationContinuationData ??
\* c?.reloadContinuationData` of one entry.
VariantReloadFirst(c) ==
    Coalesce(c.reloadContinuationData,
             Coalesce(c.invalidationContinuationData, c.timedContinuationData))
Variant(c) ==
    Coalesce(c.timedContinuationData,
             Coalesce(c.invalidationContinuationData, c.reloadContinuationData))

RECURSIVE FirstContinuation(_, _)
\* the for-loop over continuations[]: the first entry whose variant has a
\* truthy continuation, from index i on; NoCont when none has
FirstContinuation(arr, i) ==
    IF i > Len(arr) THEN NoCont
    ELSE IF Variant(arr[i]).present /\ Variant(arr[i]).continuation # NoToken
         THEN Variant(arr[i])
         ELSE FirstContinuation(arr, i + 1)

\* traverseJSON(data, (v, k) => k === 'continuation' && typeof v === 'string' ? v
\* : undefined): the depth-first scan for a string field named continuation.
\* Its result is a field of the modelled payload (data.scan).
traverseJSONForContinuation(data) == data.scan

extractContinuationAndTimeout(data) ==
    LET timed == FirstContinuation(data.continuations, 1)
    IN  IF timed.present
        THEN [token |-> timed.continuation, timeoutMs |-> timed.timeoutMs]
        ELSE [token |-> traverseJSONForContinuation(data), timeoutMs |-> NoTimeout]

\* Object.keys(cleanData)[0] -> cleanData[actionType]?.item -> action?.id
getId(action) == action.itemId

\* msgTimestamp of the poll loop: parseInt(renderer.timestampUsec) / 1000 of a
\* renderer found directly on the action, and "no timestamp" (0 in the code)
\* otherwise.
msgTimestamp(action) == action.top

\* msgTimestamp > 0 && msgTimestamp < this.bootTime - 5000
TooOld(ts, boot) == ts.present /\ (ts.usec \div 1000) < boot - BARRIER_GRACE_MS

InSeq(x, seq) == \E i \in 1..Len(seq) : seq[i] = x

\* recentMessageIds is a Set, which iterates in insertion order: a sequence
\* without repetitions.  The result is the return value and the new set.
trackMessageIdRefresh(ids, id) ==
    IF InSeq(id, ids)
    THEN [ok |-> FALSE, ids |-> Append(SelectSeq(ids, LAMBDA x : x # id), id)]
    ELSE LET added == Append(ids, id)
         IN  [ok |-> TRUE,
              ids |-> IF Len(added) > DEDUP_MAX THEN Tail(added) ELSE added]
trackMessageId(ids, id) ==
    IF InSeq(id, ids) THEN [ok |-> FALSE, ids |-> ids]
    ELSE LET added == Append(ids, id)
         IN  [ok |-> TRUE,
              ids |-> IF Len(added) > DEDUP_MAX THEN Tail(added) ELSE added]

(***************************************************************************)
(* Sinks (class AdapterInfo) and the queued broadcast                      *)
(***************************************************************************)
NoAdapter == [present |-> FALSE, sockets |-> {}, outbox |-> <<>>, draining |-> FALSE]
InheritingAdapter ==
    [present |-> TRUE, sockets |-> {}, outbox |-> <<[debug |-> TRUE, message |-> "left over"]>>,
     draining |-> FALSE]
NewAdapter == [present |-> TRUE, sockets |-> {}, outbox |-> <<>>, draining |-> FALSE]

\* The result of running code on one sink: the sink, the payloads sent to each
\* of its sockets (in order), and the drain timers started.
SinkResult(ad, sent, started) == [ad |-> ad, sent |-> sent, started |-> started]

\* drain(adapter)
drainNewest(ad) ==
    IF ad.sockets = {} THEN SinkResult([ad EXCEPT !.outbox = <<>>, !.draining = FALSE], <<>>, 0)
    ELSE IF ad.outbox = <<>> THEN SinkResult([ad EXCEPT !.draining = FALSE], <<>>, 0)
    ELSE SinkResult([ad EXCEPT !.outbox = SubSeq(@, 1, Len(@) - 1)],
                    <<ad.outbox[Len(ad.outbox)]>>, 1)
drainKeepsFlag(ad) ==
    IF ad.sockets = {} \/ ad.outbox = <<>> THEN SinkResult(ad, <<>>, 0)
    ELSE SinkResult([ad EXCEPT !.outbox = Tail(ad.outbox)], <<Head(ad.outbox)>>, 1)
drain(ad) ==
    IF ad.sockets = {}
    THEN SinkResult([ad EXCEPT !.outbox = <<>>, !.draining = FALSE], <<>>, 0)
    ELSE IF ad.outbox = <<>>
         THEN SinkResult([ad EXCEPT !.draining = FALSE], <<>>, 0)
         ELSE SinkResult([ad EXCEPT !.outbox = Tail(ad.outbox)], <<Head(ad.outbox)>>, 1)

\* adapter.outbox.splice(0, adapter.outbox.length - OUTBOX_MAX)
CapDropNewest(q) == IF Len(q) > OUTBOX_MAX THEN SubSeq(q, 1, OUTBOX_MAX) ELSE q
Cap(q) ==
    IF Len(q) > OUTBOX_MAX THEN SubSeq(q, Len(q) - OUTBOX_MAX + 1, Len(q)) ELSE q

\* enqueue(adapter, payload)
enqueueEager(ad, payload) ==
    drain([ad EXCEPT !.outbox = Cap(Append(ad.outbox, payload)), !.draining = TRUE])
enqueueFront(ad, payload) ==
    LET queued == [ad EXCEPT !.outbox = Cap(<<payload>> \o ad.outbox)]
    IN  IF ~queued.draining
        THEN drain([queued EXCEPT !.draining = TRUE])
        ELSE SinkResult(queued, <<>>, 0)
enqueue(ad, payload) ==
    LET queued == [ad EXCEPT !.outbox = Cap(Append(ad.outbox, payload))]
    IN  IF ~queued.draining
        THEN drain([queued EXCEPT !.draining = TRUE])
        ELSE SinkResult(queued, <<>>, 0)

RECURSIVE enqueueAll(_, _, _, _)
\* enqueue(adapter, payloads[lo]), ..., enqueue(adapter, payloads[hi]) in order,
\* for an adapter of the map (the range is folded by halves)
enqueueAll(res, payloads, lo, hi) ==
    IF lo > hi \/ ~res.ad.present THEN res
    ELSE IF lo = hi
    THEN LET r == enqueue(res.ad, payloads[lo])
         IN  SinkResult(r.ad, res.sent \o r.sent, res.started + r.started)
    ELSE enqueueAll(enqueueAll(res, payloads, lo, (lo + hi) \div 2),
                    payloads, (lo + hi) \div 2 + 1, hi)

(***************************************************************************)
(* State                                                                   *)
(***************************************************************************)
VARIABLES
    \* fields of YoutubeChatV4
    initialized, videoId, nextContinuationToken, lastOkFetchTime, healBackoffMs,
    nextHealAllowedAt, bootTime, recentMessageIds, adapters,
    \* apiKey, and with it clientVersion, visitorData and initialData, which are
    \* assigned together: the bootstrap the poll requests are built from
    apiKey,
    \* state.storage alarm: NoAlarm, or the time until it is due (0: due)
    alarm,
    \* the alarm() invocations: where each is suspended, and its locals
    ticks,
    \* per sink name: the due times of the setTimeout(drain) callbacks pending on
    \* the AdapterInfo registered under that name
    drainTimers,
    \* setTimeout(drain) callbacks pending on AdapterInfo objects that cleanup
    \* has removed from the map
    staleTimers,
    \* the connections: how far each request got, its adapter name, how many of
    \* its close/error listeners have run, whether socket.send on it throws
    sock,
    \* what each socket was sent, as far as the observer remembers
    received,
    \* the sockets on which safeSend has called close()
    closed,
    \* the time until the next callback of setInterval(sendPing) (0: due)
    pingAt,
    \* the number of the last chat message the upstream has served
    served,
    \* observations of the run that the properties read (no effect on the run)
    obs

sessionVars ==
    <<initialized, videoId, nextContinuationToken, lastOkFetchTime, healBackoffMs,
      nextHealAllowedAt, bootTime, recentMessageIds, apiKey>>
sinkVars == <<adapters, drainTimers, received, closed>>
vars ==
    <<initialized, videoId, nextContinuationToken, lastOkFetchTime, healBackoffMs,
      nextHealAllowedAt, bootTime, recentMessageIds, apiKey, adapters, alarm, ticks,
      drainTimers, staleTimers, sock, received, closed, pingAt, served, obs>>

IdleTick == [pc |-> "idle", now |-> 0, token |-> NoToken, abortAt |-> 0]
NewSock == [phase |-> "new", adapter |-> "json", cleanups |-> 0, broken |-> FALSE]

\* logCap: how many payloads per socket, the latest ones, the observer of
\* deliveries remembers; stalled: the last OK response yielded no continuation
\* token, and no heal has succeeded since
NoObs ==
    [logCap |-> 0, timedAny |-> {}, timedLead |-> {}, healFails |-> 0, healWait |-> 0,
     healToken |-> NoToken, stalled |-> FALSE]

\* the session as constructed, watched by an observer remembering cap deliveries
InitWith(cap) ==
    /\ initialized = FALSE
    /\ videoId = FALSE
    /\ nextContinuationToken = NoToken
    /\ lastOkFetchTime = DateNow
    /\ healBackoffMs = HEAL_BACKOFF_INIT
    /\ nextHealAllowedAt = 0
    /\ bootTime = DateNow
    /\ recentMessageIds = <<>>
    /\ apiKey = NoKey
    /\ adapters = [a \in AdapterNames |-> NoAdapter]
    /\ alarm = NoAlarm
    /\ ticks = [t \in TickIds |-> IdleTick]
    /\ drainTimers = [a \in AdapterNames |-> <<>>]
    /\ staleTimers = <<>>
    /\ sock = [s \in Sockets |-> NewSock]
    /\ received = [s \in Sockets |-> <<>>]
    /\ closed = {}
    /\ pingAt = DateNow + PING_INTERVAL_MS
    /\ served = 0
    /\ obs = [NoObs EXCEPT !.logCap = cap]

Init == InitWith(0)

(***************************************************************************)
(* Derived state                                                           *)
(***************************************************************************)
hasActiveSocketsIn(ads) == \E a \in AdapterNames : ads[a].present /\ ads[a].sockets # {}
hasActiveSockets == hasActiveSocketsIn(adapters)

\* upstream requests in flight: the heal's page fetch and the chat POST
InFlight == Cardinality({t \in TickIds : ticks[t].pc \in {"healFetch", "chatFetch"}})
TickRunning == \E t \in TickIds : ticks[t].pc # "idle"

\* state.blockConcurrencyWhile: no event is delivered while a callback runs
GateAlwaysOpen == TRUE
GateOpen == ~TickRunning

\* the invocation record a new alarm() call takes
FreeTick(t) == ticks[t].pc = "idle" /\ \A u \in TickIds : u < t => ticks[u].pc # "idle"

\* this.state.storage.setAlarm / deleteAlarm of scheduleNext(delayMs), given the sinks
scheduleNextIfNone(ads, delayMs) ==
    IF ~hasActiveSocketsIn(ads) THEN NoAlarm
    ELSE IF alarm # NoAlarm /\ alarm > DateNow THEN alarm
    ELSE DateNow + Max(MIN_CHAT_INTERVAL,
                       IF delayMs = 0 THEN BASE_CHAT_INTERVAL ELSE delayMs)
scheduleNextBase(ads, delayMs) ==
    IF ~hasActiveSocketsIn(ads) THEN NoAlarm ELSE DateNow + BASE_CHAT_INTERVAL
scheduleNextUnlessError(ads, delayMs) ==
    IF ~hasActiveSocketsIn(ads) \/ delayMs = ERROR_DELAY THEN NoAlarm
    ELSE DateNow + Max(MIN_CHAT_INTERVAL,
                       IF delayMs = 0 THEN BASE_CHAT_INTERVAL ELSE delayMs)
scheduleNext(ads, delayMs) ==
    IF ~hasActiveSocketsIn(ads) THEN NoAlarm
    ELSE DateNow + Max(MIN_CHAT_INTERVAL,
                       IF delayMs = 0 THEN BASE_CHAT_INTERVAL ELSE delayMs)

\* the observer's log of one socket
Log(seq, more) ==
    LET all == seq \o more IN SubSeq(all, Max(1, Len(all) - obs.logCap + 1), Len(all))

\* broadcast(msg) for each msg of payloads in order (no ping among them):
\* every sink enqueues them; the result for sink a
SinkAfter(a, payloads) == enqueueAll(SinkResult(adapters[a], <<>>, 0), payloads, 1, Len(payloads))

Timers(n) == [i \in 1..n |-> OUTBOUND_INTERVAL_MS]

\* The sockets of the session's sinks in the order the forEach loops visit
\* them: sockets attach in the order of their numbers.
Before(u, s) ==
    /\ u < s
    /\ \E a \in AdapterNames : u \in adapters[a].sockets

\* safeSend(socket, data) for each data of payloads, inside a forEach over
\* sockets: what socket s is sent, and whether socket.close() is called on it
unsafeSend(s, payloads) ==
    IF sock[s].broken \/ \E u \in Sockets : Before(u, s) /\ sock[u].broken
    THEN [got |-> <<>>, closes |-> FALSE]
    ELSE [got |-> payloads, closes |-> FALSE]
safeSend(s, payloads) ==
    IF sock[s].broken THEN [got |-> <<>>, closes |-> payloads # <<>>]
    ELSE [got |-> payloads, closes |-> FALSE]

BroadcastEffect(payloads) ==
    /\ adapters' = [a \in AdapterNames |->
                      IF adapters[a].present THEN SinkAfter(a, payloads).ad
                      ELSE adapters[a]]
    /\ received' = [s \in Sockets |->
                      IF \E a \in AdapterNames : s \in adapters[a].sockets
                      THEN LET a == CHOOSE b \in AdapterNames : s \in adapters[b].sockets
                           IN  Log(received[s],
                                   safeSend(s, SinkAfter(a, payloads).sent).got)
                      ELSE received[s]]
    /\ closed' = closed \cup
                    {s \in Sockets :
                       \E a \in AdapterNames :
                          /\ s \in adapters[a].sockets
                          /\ safeSend(s, SinkAfter(a, payloads).sent).closes}
    /\ drainTimers' = [a \in AdapterNames |->
                         IF adapters[a].present
                         THEN drainTimers[a] \o Timers(SinkAfter(a, payloads).started)
                         ELSE drainTimers[a]]

(***************************************************************************)
(* The poll loop over the actions of one response                          *)
(***************************************************************************)
LoopState(ids, out, thrown) == [ids |-> ids, out |-> out, thrown |-> thrown]

\* processAndBroadcast(action, id): the envelope broadcast, if any; the map over
\* message.runs throws when runs is not an array
processAndBroadcast(st, action, id) ==
    IF ~action.hasText THEN st
    ELSE IF action.badRuns THEN LoopState(st.ids, st.out, TRUE)
    ELSE LoopState(st.ids, Append(st.out, Message(action.text, id, DateNow)), FALSE)

\* one iteration of `for (const action of actions)`
pollStep(st, action, boot) ==
    IF TooOld(msgTimestamp(action), boot) THEN st
    ELSE LET id == getId(action)
             tr == trackMessageId(st.ids, id)
         IN  IF id # NoToken
             THEN IF ~tr.ok THEN LoopState(tr.ids, st.out, FALSE)
                  ELSE processAndBroadcast(LoopState(tr.ids, st.out, FALSE), action, id)
             ELSE processAndBroadcast(st, action, id)

RECURSIVE pollLoop(_, _, _, _, _)
\* the loop over actions[lo..hi] in order (the range is folded by halves); an
\* exception leaves it
pollLoop(st, actions, lo, hi, boot) ==
    IF lo > hi \/ st.thrown THEN st
    ELSE IF lo = hi THEN pollStep(st, actions[lo], boot)
    ELSE pollLoop(pollLoop(st, actions, lo, (lo + hi) \div 2, boot),
                  actions, (lo + hi) \div 2 + 1, hi, boot)

(***************************************************************************)
(* Requests through createChatObject: POST /init, then GET /ws/<videoId>   *)
(***************************************************************************)
\* the guard of handleInit's body: "if (this.initialized) return"
isInitializedNever == FALSE

isInitialized == initialized

\* what handleInit answers, after the early return, the try and the catch alike:
\* `return new Response('OK')`
handleInitResponse(videoData) == [ok |-> TRUE, status |-> 200]

\* handleInit with body videoData.  videoData.found: the scan of initialData
\* finds the 'Live chat' continuation object (getContinuationToken throws on
\* undefined otherwise); videoData.token: the continuation under its first key.
\* createChatObject goes on to the websocket request unless `!init.ok`.
handleInit(s, videoData) ==
    /\ GateOpen
    /\ sock[s].phase = "new"
    /\ \A u \in Sockets : u < s => sock[u].phase # "new"
    /\ sock' = [sock EXCEPT ![s].phase =
                   IF handleInitResponse(videoData).ok THEN "init" ELSE "refused"]
    /\ videoId' = TRUE
    /\ IF isInitialized
       THEN UNCHANGED <<initialized, nextContinuationToken, apiKey, sinkVars>>
       ELSE /\ apiKey' = BootKey
            /\ IF videoData.found
               THEN /\ nextContinuationToken' = videoData.token
                    /\ initialized' = TRUE
                    /\ BroadcastEffect(<<Debug("Initialized stream session.")>>)
               ELSE /\ UNCHANGED <<initialized, nextContinuationToken>>
                    /\ BroadcastEffect(<<Debug("Init failed")>>)
    /\ UNCHANGED <<lastOkFetchTime, healBackoffMs, nextHealAllowedAt, bootTime,
                   recentMessageIds, alarm, ticks, staleTimers, served, pingAt, obs>>

\* socket.send(JSON.stringify({ debug: true, message: `Connected. ...` })), right
\* after adapter.sockets.add(socket): what the socket has been sent by then
greetLater(log, name) == log
greet(log, name) == Log(log, <<Greeting(name)>>)

\* handleWebsocket with ?adapter=name
handleWebsocket(s, name) ==
    /\ GateOpen
    /\ sock[s].phase = "init"
    /\ \A u \in Sockets : u < s => sock[u].phase # "init"
    /\ videoId' = TRUE
    /\ adapters' = [adapters EXCEPT ![name] =
                      [(IF @.present THEN @ ELSE NewAdapter) EXCEPT
                         !.sockets = @ \cup {s}]]
    /\ alarm' = scheduleNext(adapters', ATTACH_DELAY)
    /\ received' = [received EXCEPT ![s] = greet(@, name)]
    /\ sock' = [sock EXCEPT ![s].phase = "open", ![s].adapter = name]
    /\ UNCHANGED <<initialized, nextContinuationToken, lastOkFetchTime, healBackoffMs,
                   nextHealAllowedAt, bootTime, recentMessageIds, apiKey, ticks, drainTimers,
                   staleTimers, closed, served, pingAt, obs>>

\* `if (!this.hasActiveSockets()) void this.state.storage.deleteAlarm()`
alarmKept(ads, al) == al
alarmDropped(ads, al) == NoAlarm
alarmAfterCleanup(ads, al) == IF ~hasActiveSocketsIn(ads) THEN NoAlarm ELSE al

\* `currentAdapter.sockets.delete(socket)` and the `size === 0` branch of
\* cleanup, for a sink left with the sockets `left`
removedKeepsOutbox(ad, left) ==
    IF left = {} THEN [NoAdapter EXCEPT !.outbox = ad.outbox]
    ELSE [ad EXCEPT !.sockets = left]
removedKeepsSink(ad, left) == [ad EXCEPT !.sockets = left]
removedAlways(ad, left) == NoAdapter
removed(ad, left) == IF left = {} THEN NoAdapter ELSE [ad EXCEPT !.sockets = left]

\* the `cleanup` listener of socket s, run for its close or its error event
cleanup(s) ==
    LET name == sock[s].adapter
        left == adapters[name].sockets \ {s}
        gone == adapters[name].present /\ left = {}
    IN  /\ GateOpen
        /\ sock[s].phase = "open"
        /\ sock[s].cleanups < 2
        /\ sock' = [sock EXCEPT ![s].cleanups = @ + 1]
        /\ adapters' = [adapters EXCEPT ![name] =
                          IF @.present THEN removed(@, left) ELSE @]
        /\ drainTimers' = [drainTimers EXCEPT ![name] = IF gone THEN <<>> ELSE @]
        /\ staleTimers' = IF gone THEN staleTimers \o drainTimers[name]
                          ELSE staleTimers
        /\ alarm' = alarmAfterCleanup(adapters', alarm)
        /\ UNCHANGED <<sessionVars, ticks, received, closed, served, pingAt, obs>>

(***************************************************************************)
(* alarm(): pollOnce() and scheduleNext(delay) inside blockConcurrencyWhile *)
(***************************************************************************)
\* `msSinceOk > 45_000 && now >= this.nextHealAllowedAt`, at the tick's start
DeadmanUngated == DateNow - lastOkFetchTime > DEADMAN_MS
DeadmanNever == FALSE
Deadman == DateNow - lastOkFetchTime > DEADMAN_MS /\ DateNow >= nextHealAllowedAt

\* Math.min(this.healBackoffMs * 2, 60_000)
backoffKept(ms) == ms
nextBackoff(ms) == Min(ms * 2, HEAL_BACKOFF_MAX)

ObserveHealFail == [obs EXCEPT !.healFails = Min(@ + 1, 4),
                               !.healWait = nextBackoff(healBackoffMs)]

\* `this.nextHealAllowedAt = now + this.healBackoffMs` after a failed heal
healRetryAtOnce(now, backoff) == 0
healRetryAt(now, backoff) == Max(now + backoff, 0)

\* `if (!recovered)`: the branch of pollOnce after forceRefreshSession() === false,
\* for a tick whose `now` was taken at tnow, then scheduleNext of alarm()
healFailed(t, tnow, payloads) ==
    /\ BroadcastEffect(payloads)
    /\ healBackoffMs' = nextBackoff(healBackoffMs)
    /\ nextHealAllowedAt' = healRetryAt(tnow, healBackoffMs')
    /\ alarm' = scheduleNext(adapters, healBackoffMs')
    /\ ticks' = [ticks EXCEPT ![t] = IdleTick]
    /\ obs' = ObserveHealFail
    /\ UNCHANGED <<initialized, videoId, nextContinuationToken, lastOkFetchTime,
                   bootTime, recentMessageIds, apiKey, staleTimers, sock, served, pingAt>>

\* `if (!this.initialized || !this.nextContinuationToken) return 2_000`
notReadyUninitialized == ~initialized
notReady == ~initialized \/ nextContinuationToken = NoToken

\* The alarm fires: alarm() runs pollOnce up to its first await, or to its end.
alarmFires(t) ==
    /\ alarm # NoAlarm
    /\ alarm <= DateNow
    /\ GateOpen
    /\ FreeTick(t)
    /\ IF notReady
       THEN /\ alarm' = scheduleNext(adapters, NOT_READY_DELAY)
            /\ UNCHANGED <<sessionVars, sinkVars, ticks, staleTimers, sock, served, pingAt, obs>>
       ELSE IF ~hasActiveSockets
       THEN /\ alarm' = scheduleNext(adapters, 0)
            /\ UNCHANGED <<sessionVars, sinkVars, ticks, staleTimers, sock, served, pingAt, obs>>
       ELSE IF Deadman /\ ~videoId
       THEN \* forceRefreshSession: `if (!vid) return false`, no request is made
            healFailed(t, DateNow, <<Debug("[AUTO-HEAL] Refreshing token..."),
                                     Debug("[AUTO-HEAL] Failed.")>>)
       ELSE IF Deadman
       THEN /\ BroadcastEffect(<<Debug("[AUTO-HEAL] Refreshing token...")>>)
            /\ alarm' = NoAlarm
            /\ ticks' = [ticks EXCEPT ![t] =
                           [pc |-> "healFetch", now |-> DateNow, token |-> NoToken,
                            abortAt |-> 0]]
            /\ UNCHANGED <<sessionVars, staleTimers, sock, served, pingAt, obs>>
       ELSE /\ alarm' = NoAlarm
            /\ ticks' = [ticks EXCEPT ![t] =
                           [pc |-> "chatFetch", now |-> DateNow,
                            token |-> nextContinuationToken,
                            abortAt |-> DateNow + FETCH_TIMEOUT_MS]]
            /\ UNCHANGED <<sessionVars, sinkVars, staleTimers, sock, served, pingAt, obs>>

\* `this.nextContinuationToken = token` of forceRefreshSession
\* `this.nextHealAllowedAt = now + 5_000` after a heal, for the tick's `now`
healAllowedAtOnce(now) == 0
healAllowedAfterSuccess(now) == Max(now + HEAL_COOLDOWN_MS, 0)

tokenKept(page) == nextContinuationToken
adoptToken(page) == page.token

\* forceRefreshSession() returns: the page fetch of the heal answers.  page.ok:
\* status 2xx, ytInitialData found and parsed; page.token: what
\* extractContinuationAndTimeout finds in it.
healResponse(t, page) ==
    /\ ticks[t].pc = "healFetch"
    /\ IF page.ok /\ page.token # NoToken
       THEN /\ nextContinuationToken' = adoptToken(page)
            /\ lastOkFetchTime' = DateNow
            /\ bootTime' = DateNow
            /\ healBackoffMs' = HEAL_BACKOFF_INIT
            /\ nextHealAllowedAt' = healAllowedAfterSuccess(ticks[t].now)
            /\ ticks' = [ticks EXCEPT ![t] =
                           [pc |-> "chatFetch", now |-> ticks[t].now,
                            token |-> nextContinuationToken',
                            abortAt |-> DateNow + FETCH_TIMEOUT_MS]]
            /\ obs' = [obs EXCEPT !.healFails = 0, !.timedLead = {},
                                  !.healToken = page.token, !.stalled = FALSE]
            /\ UNCHANGED <<initialized, videoId, recentMessageIds, apiKey, sinkVars,
                           alarm, staleTimers, sock, served, pingAt>>
       ELSE healFailed(t, ticks[t].now, <<Debug("[AUTO-HEAL] Failed.")>>)

\* The continuations of an OK response that the properties speak about:
\* timedAny - every T that is the timedContinuationData.continuation of some entry;
\* timedLead - such a T whose entry is preceded by no entry carrying a
\* continuation in any variant.
HasAnyContinuation(c) ==
    \/ c.timedContinuationData.continuation # NoToken
    \/ c.invalidationContinuationData.continuation # NoToken
    \/ c.reloadContinuationData.continuation # NoToken
TimedAny(data) ==
    {data.continuations[k].timedContinuationData.continuation :
        k \in {j \in 1..Len(data.continuations) :
                 data.continuations[j].timedContinuationData.continuation # NoToken}}
TimedLead(data) ==
    {data.continuations[k].timedContinuationData.continuation :
        k \in {j \in 1..Len(data.continuations) :
                 /\ data.continuations[j].timedContinuationData.continuation # NoToken
                 /\ \A i \in 1..(j - 1) : ~HasAnyContinuation(data.continuations[i])}}

\* the delay pollOnce returns after an OK response
okDelay(timeoutMs) ==
    IF timeoutMs # NoTimeout THEN clamp(timeoutMs) ELSE BASE_CHAT_INTERVAL

\* `if (token) this.nextContinuationToken = token`
nextTokenAlways(token) == token
nextToken(token) == IF token # NoToken THEN token ELSE nextContinuationToken

\* what the catch of pollOnce broadcasts for a failed POST
failureSilent(kind) == <<>>
failurePayloads(kind) ==
    IF kind = "throttled" THEN <<Debug("[FETCH] Subrequest limit hit.")>>
    ELSE <<Debug("[FETCH] " \o kind)>>

\* The chat POST answers (or is aborted): the rest of pollOnce, then scheduleNext.
\* r.kind: "ok" (2xx with JSON body r.data), "status" (non-2xx), "throttled" (the
\* error says Too many subrequests), "transport", "timeout" (the 10 s abort).
chatResponse(t, r) ==
    LET ext == extractContinuationAndTimeout(r.data)
        loop == pollLoop(LoopState(recentMessageIds, <<>>, FALSE), r.data.actions, 1,
                         Len(r.data.actions), bootTime)
        payloads ==
            IF r.kind = "ok"
            THEN IF loop.thrown THEN Append(loop.out, Debug("[FETCH] TypeError"))
                 ELSE loop.out
            ELSE failurePayloads(r.kind)
        delay ==
            IF r.kind = "ok" /\ ~loop.thrown THEN okDelay(ext.timeoutMs) ELSE ERROR_DELAY
    IN  /\ ticks[t].pc = "chatFetch"
        /\ r.kind = "timeout" => ticks[t].abortAt <= DateNow
        /\ IF r.kind = "ok"
           THEN /\ lastOkFetchTime' = DateNow
                /\ nextContinuationToken' = nextToken(ext.token)
                /\ recentMessageIds' = loop.ids
                /\ served' = served + Len(r.data.actions)
                /\ obs' = [obs EXCEPT !.timedAny = TimedAny(r.data),
                                      !.timedLead = TimedLead(r.data),
                                      !.stalled = (ext.token = NoToken)]
           ELSE UNCHANGED <<lastOkFetchTime, nextContinuationToken, recentMessageIds,
                            served, obs>>
        /\ BroadcastEffect(payloads)
        /\ alarm' = scheduleNext(adapters, delay)
        /\ ticks' = [ticks EXCEPT ![t] = IdleTick]
        /\ UNCHANGED <<initialized, videoId, healBackoffMs, nextHealAllowedAt, bootTime,
                       apiKey, staleTimers, sock, pingAt>>

(***************************************************************************)
(* Timers and the clock                                                    *)
(***************************************************************************)
\* a setTimeout(() => this.drain(adapter), 100) callback of the sink under name a
drainTimerFires(a) ==
    LET r == drain(adapters[a])
    IN  /\ drainTimers[a] # <<>>
        /\ Head(drainTimers[a]) <= DateNow
        /\ adapters' = [adapters EXCEPT ![a] = r.ad]
        /\ received' = [s \in Sockets |->
                          IF s \in adapters[a].sockets
                          THEN Log(received[s], safeSend(s, r.sent).got)
                          ELSE received[s]]
        /\ closed' = closed \cup {s \in adapters[a].sockets : safeSend(s, r.sent).closes}
        /\ drainTimers' = [drainTimers EXCEPT ![a] = Tail(@) \o Timers(r.started)]
        /\ UNCHANGED <<sessionVars, alarm, ticks, staleTimers, sock, served, pingAt, obs>>

\* the same callback for an AdapterInfo that cleanup removed from the map: the
\* object is unreachable from the session and is as cleanup left it
RemovedAdapter == [NoAdapter EXCEPT !.present = TRUE]
staleTimerFires ==
    LET r == drain(RemovedAdapter)
    IN  /\ staleTimers # <<>>
        /\ Head(staleTimers) <= DateNow
        /\ staleTimers' = Tail(staleTimers) \o Timers(r.started)
        /\ r.sent = <<>>
        /\ UNCHANGED <<sessionVars, sinkVars, alarm, ticks, sock, served, pingAt, obs>>

\* broadcast(msg) sends a ping at once and queues everything else
bypassNever(msg) == FALSE
bypass(msg) == "type" \in DOMAIN msg /\ msg.type = "ping"

\* a callback of setInterval(() => this.sendPing(), 30_000)
sendPing ==
    /\ pingAt <= DateNow
    /\ pingAt' = DateNow + PING_INTERVAL_MS
    /\ IF ~hasActiveSockets THEN UNCHANGED sinkVars
       ELSE IF bypass(Ping)
       THEN /\ received' = [s \in Sockets |->
                              IF \E a \in AdapterNames : s \in adapters[a].sockets
                              THEN Log(received[s], safeSend(s, <<Ping>>).got)
                              ELSE received[s]]
            /\ closed' = closed \cup
                            {s \in Sockets :
                               /\ \E a \in AdapterNames : s \in adapters[a].sockets
                               /\ safeSend(s, <<Ping>>).closes}
            /\ UNCHANGED <<adapters, drainTimers>>
       ELSE BroadcastEffect(<<Ping>>)
    /\ UNCHANGED <<sessionVars, alarm, ticks, staleTimers, sock, served, obs>>

\* The connection of socket s fails: from now on socket.send throws on it.  Its
\* close or error event is delivered later (cleanup).
connectionBreaks(s) ==
    /\ sock[s].phase = "open"
    /\ sock[s].cleanups = 0
    /\ ~sock[s].broken
    /\ sock' = [sock EXCEPT ![s].broken = TRUE]
    /\ UNCHANGED <<sessionVars, sinkVars, alarm, ticks, staleTimers, pingAt, served, obs>>

\* d ms pass
Advance(d) ==
    /\ lastOkFetchTime' = Shift(lastOkFetchTime, d, -(DEADMAN_MS + PastSlack))
    /\ bootTime' = Shift(bootTime, d, -BootSlack)
    /\ nextHealAllowedAt' = Shift(nextHealAllowedAt, d, 0)
    /\ alarm' = IF alarm = NoAlarm THEN NoAlarm ELSE Shift(alarm, d, 0)
    /\ ticks' = [t \in TickIds |->
                   IF ticks[t].pc = "idle" THEN ticks[t]
                   ELSE [ticks[t] EXCEPT !.now = Shift(@, d, -HEAL_BACKOFF_MAX),
                                         !.abortAt = Shift(@, d, 0)]]
    /\ drainTimers' = [a \in AdapterNames |->
                         [i \in 1..Len(drainTimers[a]) |-> Shift(drainTimers[a][i], d, 0)]]
    /\ staleTimers' = [i \in 1..Len(staleTimers) |-> Shift(staleTimers[i], d, 0)]
    /\ pingAt' = Shift(pingAt, d, 0)
    /\ UNCHANGED <<initialized, videoId, nextContinuationToken, healBackoffMs,
                   recentMessageIds, apiKey, adapters, sock, received, closed, served,
                   obs>>

(***************************************************************************)
(* Spec: every operation, under every interleaving; the upstream answers   *)
(* polls with a new token and no chat action, or with an error.            *)
(***************************************************************************)
VideoDatas ==
    {[found |-> TRUE, token |-> "T0"], [found |-> TRUE, token |-> NoToken],
     [found |-> FALSE, token |-> NoToken]}
Pages == {[ok |-> TRUE, token |-> "T0"], [ok |-> FALSE, token |-> NoToken]}
NoData == Data(<<>>, NoToken, <<>>)
Ok(data) == [kind |-> "ok", data |-> data]
QuietResponses ==
    {Ok(Data(<<Entry(Cont("T0", 2500), NoCont, NoCont)>>, "T0", <<>>)),
     [kind |-> "status", data |-> NoData]}
Steps == {30000}

\* the environment lets the sinks drain before the next tick adds to them
QueueRoom == \A a \in AdapterNames : adapters[a].outbox = <<>>

\* the environment runs timer callbacks when they are due, before anything else
Punctual ==
    /\ \A a \in AdapterNames :
          \A i \in 1..Len(drainTimers[a]) : drainTimers[a][i] > DateNow
    /\ \A i \in 1..Len(staleTimers) : staleTimers[i] > DateNow

Next ==
    \/ \E s \in Sockets, vd \in VideoDatas : Punctual /\ handleInit(s, vd)
    \/ \E s \in Sockets, name \in AdapterNames : Punctual /\ handleWebsocket(s, name)
    \/ \E s \in Sockets : Punctual /\ cleanup(s)
    \/ \E t \in TickIds : Punctual /\ QueueRoom /\ alarmFires(t)
    \/ \E t \in TickIds, page \in Pages : Punctual /\ healResponse(t, page)
    \/ \E t \in TickIds, r \in QuietResponses : Punctual /\ chatResponse(t, r)
    \/ \E a \in AdapterNames : drainTimerFires(a)
    \/ staleTimerFires
    \/ \E d \in Steps : Punctual /\ Advance(d)

Spec == Init /\ [][Next]_vars

(***************************************************************************)
(* Properties of Spec                                                      *)
(***************************************************************************)
Attached == {s \in Sockets : \E a \in AdapterNames : s \in adapters[a].sockets}

\* C1 (single-flight): at no time does the session have more than one upstream
\* request - heal page fetch or chat POST - in flight, however alarms, attaches,
\* detaches and inits interleave; all subscribers share the one poller.
C1_SingleFlight == InFlight <= 1

\* a request is in flight on behalf of two attached subscribers
C1_Witness == InFlight = 1 /\ Cardinality(Attached) = 2

\* C2 (scheduling gating): whenever no tick is executing, an alarm is pending
\* if and only if at least one subscriber is attached.
C2_ScheduledIffSubscribed == ~TickRunning => ((alarm # NoAlarm) <=> hasActiveSockets)

\* between ticks, one subscriber has left, another is still attached, and the
\* alarm is pending
C2_Witness ==
    /\ ~TickRunning
    /\ \E s \in Sockets : sock[s].cleanups > 0
    /\ hasActiveSockets
    /\ alarm # NoAlarm

\* C12 (last subscriber leaves): whenever no subscriber is attached to any
\* sink, no alarm is pending, no sink is registered and no outbox holds a
\* payload, and no tick is running and no upstream request - poll or heal fetch -
\* is in flight; this holds from the step in which the last subscriber leaves
\* until a subscriber attaches again.
C12_LastSubscriberLeaves ==
    ~hasActiveSockets =>
        /\ alarm = NoAlarm
        /\ \A a \in AdapterNames : adapters[a] = NoAdapter
        /\ ~TickRunning
        /\ InFlight = 0

\* the last subscriber has left right after a failed heal, while its sink had
\* the failure notice queued behind a pending drain timer
C12_Witness ==
    /\ ~hasActiveSockets
    /\ \E s \in Sockets : sock[s].cleanups > 0
    /\ healBackoffMs > HEAL_BACKOFF_INIT
    /\ staleTimers # <<>>

\* C16 (sink registry): a sink is registered exactly when it has a subscriber,
\* and its subscribers are exactly the connections attached under its name of
\* which neither the close nor the error listener has run - also after a close
\* followed by an error on one connection.
C16_SinkRegistry ==
    \A a \in AdapterNames :
        /\ adapters[a].present <=> adapters[a].sockets # {}
        /\ adapters[a].sockets =
               {s \in Sockets : /\ sock[s].phase = "open"
                                /\ sock[s].cleanups = 0
                                /\ sock[s].adapter = a}

\* the close and then the error listener of connection 1 have run, the second
\* after connection 2 attached under the same name
C16_Witness ==
    /\ sock[1].cleanups = 2
    /\ sock[2].phase = "open"
    /\ sock[2].adapter = sock[1].adapter
    /\ adapters[sock[2].adapter].sockets = {2}
    /\ alarm # NoAlarm /\ alarm < DateNow + ATTACH_DELAY

(***************************************************************************)
(* SpecDeadman: one subscriber of a session whose every chat poll fails;   *)
(* the heal's page fetch succeeds or fails.  Alarms and timers that are    *)
(* due fire, requests are answered or aborted, and time passes.            *)
(***************************************************************************)
DeadmanPages == {[ok |-> TRUE, token |-> "T1"], [ok |-> FALSE, token |-> NoToken]}
DeadmanFailures == {[kind |-> k, data |-> NoData] : k \in {"status", "timeout"}}
DeadmanSteps == {5000}

DeadmanInit == \E vd \in {[found |-> TRUE, token |-> "T0"]} : Punctual /\ handleInit(1, vd)
DeadmanAttach == Punctual /\ handleWebsocket(1, "json")
DeadmanTick == \E t \in TickIds : Punctual /\ QueueRoom /\ alarmFires(t)
DeadmanHealAnswer == \E t \in TickIds, page \in DeadmanPages : Punctual /\ healResponse(t, page)
DeadmanChatAnswer == \E t \in TickIds, r \in DeadmanFailures : Punctual /\ chatResponse(t, r)
DeadmanDrain == \E a \in AdapterNames : drainTimerFires(a)
DeadmanClock == \E d \in DeadmanSteps : Punctual /\ Advance(d)

NextDeadman ==
    \/ DeadmanInit
    \/ DeadmanAttach
    \/ DeadmanTick
    \/ DeadmanHealAnswer
    \/ DeadmanChatAnswer
    \/ DeadmanDrain
    \/ DeadmanClock

SpecDeadman ==
    /\ InitWith(1)
    /\ [][NextDeadman]_vars
    /\ WF_vars(DeadmanTick)
    /\ WF_vars(DeadmanHealAnswer)
    /\ WF_vars(DeadmanChatAnswer)
    /\ WF_vars(DeadmanDrain)
    /\ WF_vars(DeadmanClock)

Polling == initialized /\ nextContinuationToken # NoToken /\ hasActiveSockets
HealInFlight == \E t \in TickIds : ticks[t].pc = "healFetch"
HealStarts(t) == ticks[t].pc = "idle" /\ ticks'[t].pc = "healFetch"
SinkOf(s) == CHOOSE a \in AdapterNames : s \in adapters[a].sockets
Last(seq) == seq[Len(seq)]

\* the line is the newest of the sink's outbox, or the outbox is empty and the
\* line is the last payload socket s was sent
NewestFor(s, line) ==
    IF adapters[SinkOf(s)].outbox # <<>> THEN Last(adapters[SinkOf(s)].outbox) = line
    ELSE received[s] # <<>> /\ Last(received[s]) = line

HealFails(t) == ticks[t].pc = "healFetch" /\ ticks'[t].pc = "idle"
HealSucceeds(t) == ticks[t].pc = "healFetch" /\ ticks'[t].pc = "chatFetch"

\* C8 (heal monotonicity): every heal failure sets healBackoff to
\* min(2 * previous, 60 000), which is not below the previous value; every heal
\* success sets it to 5 000; it is never below 5 000 nor above 60 000.
C8_HealMonotonicity ==
    [][/\ (\E t \in TickIds : HealFails(t)) =>
             /\ healBackoffMs' = Min(2 * healBackoffMs, 60000)
             /\ healBackoffMs' >= healBackoffMs
       /\ (\E t \in TickIds : HealSucceeds(t)) => healBackoffMs' = 5000
       /\ healBackoffMs' >= 5000 /\ healBackoffMs' <= 60000]_vars

\* four consecutive heal failures have taken the backoff to its cap
C8_Witness == healBackoffMs = 60000 /\ obs.healFails = 4

\* C9 (heal backoff schedule), as claimed: from a fresh session the wait after
\* the k-th consecutive failed heal is 5 000 * 2^(k-1) ms: 5 000, 10 000, 20 000.
C9_BackoffSchedule ==
    obs.healFails \in 1..3 => obs.healWait = 5000 * 2 ^ (obs.healFails - 1)

\* C10 (deadman heal liveness): while every poll fails and a subscriber stays
\* attached, a heal is eventually attempted - its page fetch is in flight; a heal
\* starts only when more than 45 000 ms have passed since the last OK poll, and
\* it enqueues the refreshing-token debug line for every subscriber; when a heal
\* succeeds with token T', the chat poll that follows carries T', T' is the
\* session's token and lastOkFetchTime is the time of the heal.
C10_DeadmanHeal ==
    /\ Polling ~> HealInFlight
    /\ [][\A t \in TickIds : HealStarts(t) =>
             /\ DateNow - lastOkFetchTime > 45000
             /\ \A s \in Attached :
                   NewestFor(s, Debug("[AUTO-HEAL] Refreshing token..."))']_vars
    /\ [][\A t \in TickIds : HealSucceeds(t) =>
             /\ ticks'[t].token = obs'.healToken
             /\ nextContinuationToken' = obs'.healToken
             /\ lastOkFetchTime' = DateNow]_vars

\* after failed polls and failed heals a heal has succeeded, and the chat poll
\* in flight carries its token
C10_Witness ==
    /\ hasActiveSockets
    /\ healBackoffMs = 5000
    /\ obs.healToken = "T1"
    /\ \E t \in TickIds : ticks[t].pc = "chatFetch" /\ ticks[t].token = "T1"

(***************************************************************************)
(* SpecChat: one subscriber; the upstream answers polls with text messages. *)
(* The run text of each message served names the renderer id it was served *)
(* with, whether its renderer timestamp was older than the barrier of the  *)
(* moment, and whether the action has the shape the platform sends.        *)
(***************************************************************************)
MessageIds == {"m1", "m2"}
Tag(rid, old, upstream) == [rid |-> rid, old |-> old, upstream |-> upstream]

\* renderer timestamps on the barrier (kept) and 1 ms before it (too old)
OnBarrier == TsUsec(bootTime - BARRIER_GRACE_MS)
BeforeBarrier == TsUsec(bootTime - BARRIER_GRACE_MS - 1)

\* { addChatItemAction: { item: { liveChatTextMessageRenderer: { id, timestampUsec, .. } } } }
UpstreamActions ==
    {Upstream(rid, OnBarrier, Tag(rid, FALSE, TRUE)) : rid \in MessageIds}
        \cup {Upstream("m1", BeforeBarrier, Tag("m1", TRUE, TRUE))}
\* actions that also carry an id on the item, or a renderer on the action itself
OtherActions ==
    {Action(NoTs, "m1", "m1", OnBarrier, Tag("m1", FALSE, FALSE)),
     Action(BeforeBarrier, NoToken, "m2", BeforeBarrier, Tag("m2", TRUE, FALSE))}
ChatActions == UpstreamActions \cup OtherActions
ChatBatches ==
    {<<a>> : a \in ChatActions}
        \cup {<<a, a>> : a \in {Upstream("m1", OnBarrier, Tag("m1", FALSE, TRUE))}}
ChatResponses ==
    {Ok(Data(<<Entry(Cont("T0", 2500), NoCont, NoCont)>>, "T0", b)) : b \in ChatBatches}
ChatSteps == {20000}

NextChat ==
    \/ \E vd \in {[found |-> TRUE, token |-> "T0"]} : Punctual /\ handleInit(1, vd)
    \/ Punctual /\ handleWebsocket(1, "json")
    \/ \E t \in TickIds : Punctual /\ QueueRoom /\ alarmFires(t)
    \/ \E t \in TickIds, page \in {[ok |-> TRUE, token |-> "T0"]} :
          Punctual /\ healResponse(t, page)
    \/ \E t \in TickIds, r \in ChatResponses :
          /\ Punctual
          /\ served + Len(r.data.actions) <= MaxMsgs
          /\ chatResponse(t, r)
    \/ \E a \in AdapterNames : drainTimerFires(a)
    \/ \E d \in ChatSteps : Punctual /\ Advance(d)

SpecChat == InitWith(MaxRecv) /\ [][NextChat]_vars

\* what socket s was sent, as far as remembered, then what is queued for it
Stream(s) == received[s] \o adapters[SinkOf(s)].outbox
MessagesOf(s) == {i \in 1..Len(Stream(s)) : IsMessage(Stream(s)[i])}

\* C3 (duplicate suppression), as claimed: text messages of the upstream shape
\* with the same renderer id are enqueued for a subscriber at most once (here
\* never more than two ids are in play, far fewer than 50).
C3_NoDuplicateId ==
    \A s \in Attached : \A i, j \in MessagesOf(s) :
        /\ i < j
        /\ Stream(s)[i].message.upstream
        /\ Stream(s)[j].message.upstream
        => Stream(s)[i].message.rid # Stream(s)[j].message.rid

\* C5 (time barrier), as claimed: no text message of the upstream shape whose
\* renderer timestamp is before bootTime - 5000 ms is enqueued for or delivered
\* to a subscriber.
C5_TimeBarrier ==
    \A s \in Attached : \A i \in MessagesOf(s) :
        Stream(s)[i].message.upstream => ~Stream(s)[i].message.old

(***************************************************************************)
(* SpecCont: one subscriber; OK responses carry continuations[] of several *)
(* shapes and no chat action; polls and heals may also fail.               *)
(***************************************************************************)
ContLists ==
    {<<Entry(Cont("T1", 2500), NoCont, Cont("T2", NoTimeout))>>,
     <<Entry(NoCont, Cont("T2", 2500), NoCont), Entry(Cont("T1", 2500), NoCont, NoCont)>>,
     <<Entry(Cont(NoToken, 2500), NoCont, NoCont), Entry(Cont("T1", 2500), NoCont, NoCont)>>,
     <<Entry(NoCont, NoCont, Cont("T0", NoTimeout))>>,
     <<>>}
ContResponses ==
    {Ok(Data(c, scan, <<>>)) : c \in ContLists, scan \in {NoToken, "T2"}}
        \cup {[kind |-> "status", data |-> NoData]}
ContPages == {[ok |-> TRUE, token |-> "T0"], [ok |-> FALSE, token |-> NoToken]}
ContSteps == {20000}

NextCont ==
    \/ \E vd \in {[found |-> TRUE, token |-> "T0"]} : Punctual /\ handleInit(1, vd)
    \/ Punctual /\ handleWebsocket(1, "json")
    \/ \E t \in TickIds : Punctual /\ QueueRoom /\ alarmFires(t)
    \/ \E t \in TickIds, page \in ContPages : Punctual /\ healResponse(t, page)
    \/ \E t \in TickIds, r \in ContResponses : Punctual /\ chatResponse(t, r)
    \/ \E a \in AdapterNames : drainTimerFires(a)
    \/ \E d \in ContSteps : Punctual /\ Advance(d)

SpecCont == Init /\ [][NextCont]_vars

ChatRequests == {t \in TickIds : ticks[t].pc = "chatFetch"}

\* C4 (continuation round-trip), as claimed: when the last OK response had an
\* entry with timedContinuationData.continuation = T, the chat request that
\* follows carries T, whatever else the response contained.
C4_TimedRoundTrip ==
    \A t \in ChatRequests : \A T \in obs.timedAny : ticks[t].token = T

\* C4, amended: when the last OK response had an entry with a non-empty
\* timedContinuationData.continuation = T and no earlier entry of
\* continuations[] with a continuation in any variant, the chat request that
\* follows carries T, unless a heal has succeeded since that response.
C4_LeadingTimedRoundTrip ==
    \A t \in ChatRequests : \A T \in obs.timedLead : ticks[t].token = T

\* a chat request carries "T1", the leading timed continuation of the last OK
\* response
C4_Witness ==
    /\ obs.timedLead = {"T1"}
    /\ \E t \in ChatRequests : ticks[t].token = "T1"

\* C13 (no-continuation stall), as claimed: after an OK response that yields no
\* continuation token at all, no chat poll is issued until a heal has
\* succeeded.
C13_NoContinuationHeals == \A t \in ChatRequests : ~obs.stalled

(***************************************************************************)
(* SpecOutbox: one subscriber; every OK response is a burst of text        *)
(* messages whose run texts number the messages served, 1, 2, 3, ...; the  *)
(* drain timers may be late, so that bursts pile up in the outbox.  Time    *)
(* passes while the alarm is pending and not yet due, at most MaxOffered   *)
(* messages are served, and the sinks drain until the observer's window of *)
(* deliveries is full.                                                     *)
(***************************************************************************)
BurstSizes == {250, 499, 1000}
Burst(n) == [i \in 1..n |-> Upstream("m", NoTs, served + i)]
BurstResponses ==
    {Ok(Data(<<Entry(Cont("T0", 2500), NoCont, NoCont)>>, "T0", Burst(n))) :
        n \in {k \in BurstSizes : served + k <= MaxOffered}}
OutboxSteps == {2500}

NextOutbox ==
    \/ \E vd \in {[found |-> TRUE, token |-> "T0"]} : handleInit(1, vd)
    \/ handleWebsocket(1, "json")
    \/ \E t \in TickIds : alarmFires(t)
    \/ \E t \in TickIds, r \in BurstResponses : chatResponse(t, r)
    \/ \E a \in AdapterNames :
          /\ \A s \in adapters[a].sockets : Len(received[s]) < MaxRecv
          /\ drainTimerFires(a)
    \/ \E d \in OutboxSteps : alarm # NoAlarm /\ alarm > DateNow /\ Advance(d)

SpecOutbox == InitWith(MaxRecv) /\ [][NextOutbox]_vars

\* the number of the last message socket s is known to have been sent, 0 if none
LastDelivered(s) ==
    IF received[s] # <<>> /\ IsMessage(Last(received[s])) THEN Last(received[s]).message
    ELSE 0

\* C6 (outbox bound with drop-oldest): every outbox holds at most 500 payloads,
\* and a subscribed sink's outbox is exactly the newest min(500, n) of the n
\* payloads queued since the last one that was sent.
C6_OutboxBound ==
    /\ \A a \in AdapterNames : Len(adapters[a].outbox) <= 500
    /\ \A s \in Attached :
          LET q == adapters[SinkOf(s)].outbox
          IN  /\ Len(q) = Min(500, served - LastDelivered(s))
              /\ \A i \in 1..Len(q) : q[i] = Message(served - Len(q) + i, NoToken, DateNow)

\* 1 000 messages were offered in one burst: the first was sent at once, of the
\* other 999 the outbox holds the last 500
C6_Witness ==
    /\ served = 1000
    /\ LastDelivered(1) = 1
    /\ Len(adapters["json"].outbox) = 500
    /\ Head(adapters["json"].outbox).message = 501

DeliveredNumbers(s) ==
    [i \in 1..Cardinality({j \in 1..Len(received[s]) : IsMessage(received[s][j])}) |->
        received[s][Len(received[s])
                    - Cardinality({j \in 1..Len(received[s]) : IsMessage(received[s][j])})
                    + i].message]

\* C7 (delivery under overrun), as claimed: the payloads delivered to a
\* subscriber are a contiguous stretch of the payloads offered - each one
\* delivered is the successor of the one delivered before it.
C7_DeliveredContiguous ==
    \A s \in Attached : \A i \in 1..(Len(DeliveredNumbers(s)) - 1) :
        DeliveredNumbers(s)[i + 1] = DeliveredNumbers(s)[i] + 1

\* C7, amended: the payloads delivered to a subscriber are delivered in the
\* order offered, none twice, and what is queued for it is a contiguous tail of
\* the offered sequence that lies after everything delivered.
C7_InOrderThenTail ==
    \A s \in Attached :
        LET q == adapters[SinkOf(s)].outbox
            d == DeliveredNumbers(s)
        IN  /\ \A i \in 1..(Len(d) - 1) : d[i] < d[i + 1]
            /\ \A i \in 1..Len(d) : d[i] \in 1..served
            /\ \A i \in 1..Len(q) : IsMessage(q[i]) /\ q[i].message = served - Len(q) + i
            /\ q # <<>> => LastDelivered(s) < Head(q).message

\* after an overrun that dropped messages 2..500, message 501 was delivered
\* right after message 1
C7_Witness ==
    /\ served >= 1000
    /\ \E i \in 1..(Len(DeliveredNumbers(1)) - 1) :
          DeliveredNumbers(1)[i] = 1 /\ DeliveredNumbers(1)[i + 1] = 501

(***************************************************************************)
(* SpecErrors: one subscriber stays attached to a session whose init found *)
(* a token or none; polls are answered OK or fail in each of the ways      *)
(* pollOnce tells apart, heals succeed or fail.  Alarms and timers that    *)
(* are due fire, requests are answered or aborted, and time passes.        *)
(***************************************************************************)
ErrorResponses ==
    {Ok(Data(<<Entry(Cont("T0", 2500), NoCont, NoCont)>>, "T0", <<>>))}
        \cup {[kind |-> k, data |-> NoData] :
                k \in {"status", "throttled", "transport", "timeout"}}

ErrorsInit == \E vd \in VideoDatas : Punctual /\ handleInit(1, vd)
ErrorsChatAnswer ==
    \E t \in TickIds, r \in ErrorResponses : Punctual /\ chatResponse(t, r)

NextErrors ==
    \/ ErrorsInit
    \/ DeadmanAttach
    \/ DeadmanTick
    \/ DeadmanHealAnswer
    \/ ErrorsChatAnswer
    \/ DeadmanDrain
    \/ DeadmanClock

SpecErrors ==
    /\ InitWith(1)
    /\ [][NextErrors]_vars
    /\ WF_vars(DeadmanTick)
    /\ WF_vars(DeadmanHealAnswer)
    /\ WF_vars(ErrorsChatAnswer)
    /\ WF_vars(DeadmanDrain)
    /\ WF_vars(DeadmanClock)

\* a step in which an alarm() invocation returns
TickEnds ==
    /\ ~TickRunning'
    /\ \/ TickRunning
       \/ \E t \in TickIds : alarmFires(t)

\* C11 (no termination on errors): while a subscriber is attached, every tick -
\* the poll succeeds, fails (non-2xx, throttled, timeout, transport), the session
\* is not ready, or the heal fails - ends with an alarm pending at least
\* 1 000 ms ahead, and the alarm fires again and again.
C11_TicksGoOn ==
    /\ [][TickEnds /\ hasActiveSockets =>
             alarm' # NoAlarm /\ alarm' >= DateNow + MIN_CHAT_INTERVAL]_vars
    /\ <>hasActiveSockets => []<><<\E t \in TickIds : alarmFires(t)>>_vars

\* the fifth poll in a row has just failed, with a transport error, and the
\* alarm is pending 5 000 ms ahead
C11_Witness ==
    /\ hasActiveSockets
    /\ ~TickRunning
    /\ alarm = DateNow + ERROR_DELAY
    /\ lastOkFetchTime <= DateNow - 20000
    /\ received[1] = <<Debug("[FETCH] transport")>>

(***************************************************************************)
(* SpecSinks: connection 1 attaches under json, connection 2 under either  *)
(* name, at any time; connections break, and the close event of a broken   *)
(* connection arrives.  OK responses carry messages numbered as in         *)
(* SpecOutbox; the ping interval runs.  Timer callbacks and the alarm run  *)
(* when they are due.  The observer remembers the last payload per socket. *)
(***************************************************************************)
SinkResponses ==
    {Ok(Data(<<Entry(Cont("T0", 2500), NoCont, NoCont)>>, "T0", Burst(n))) :
        n \in {k \in 0..MaxMsgs : served + k <= MaxMsgs}}

\* no timer callback and no alarm is due
OnTime == Punctual /\ pingAt > DateNow /\ alarm # DateNow

NextSinks ==
    \/ \E s \in 1..2 : OnTime /\ handleInit(s, [found |-> TRUE, token |-> "T0"])
    \/ \E s \in 1..2, name \in AdapterNames :
          OnTime /\ (s = 1 => name = "json") /\ handleWebsocket(s, name)
    \/ \E s \in 1..2 : OnTime /\ connectionBreaks(s)
    \/ \E s \in 1..2 : OnTime /\ sock[s].broken /\ cleanup(s)
    \/ \E t \in TickIds : Punctual /\ alarmFires(t)
    \/ \E t \in TickIds : Punctual /\ healResponse(t, [ok |-> TRUE, token |-> "T0"])
    \/ \E t \in TickIds, r \in SinkResponses : Punctual /\ chatResponse(t, r)
    \/ \E a \in AdapterNames : drainTimerFires(a)
    \/ staleTimerFires
    \/ sendPing
    \/ OnTime /\ Advance(PING_INTERVAL_MS)

SpecSinks == InitWith(1) /\ [][NextSinks]_vars

\* the sockets of sink a on which socket.send works
Healthy(a) == {s \in adapters[a].sockets : ~sock[s].broken}

\* a step in which sink a sends a payload of its outbox: drain arms its timer
Delivers(a) ==
    /\ adapters[a].present
    /\ drainTimers'[a] # drainTimers[a]
    /\ drainTimers'[a] # <<>>
    /\ Last(drainTimers'[a]) = DateNow + OUTBOUND_INTERVAL_MS

\* C14 (sink delivery rate): a sink sends a queued payload only when none of
\* its drain timers is pending or when its one pending timer is due and runs;
\* each send arms one timer 100 ms ahead and reaches every subscriber of the
\* sink whose connection works, so two sends of a sink are at least 100 ms
\* apart however many payloads were offered; a sink has a timer pending
\* exactly while it is draining.
C14_DeliveryRate ==
    /\ [](\A a \in AdapterNames :
            /\ Len(drainTimers[a]) <= 1
            /\ adapters[a].draining <=> drainTimers[a] # <<>>)
    /\ [][\A a \in AdapterNames : Delivers(a) =>
             /\ drainTimers[a] = <<>> \/ Head(drainTimers[a]) <= DateNow
             /\ drainTimers'[a] = <<DateNow + OUTBOUND_INTERVAL_MS>>
             /\ \A s \in Healthy(a) :
                   /\ received'[s] # <<>>
                   /\ \A u \in Healthy(a) : received'[u] = received'[s]
                   /\ adapters[a].outbox # <<>> =>
                          received'[s] = <<Head(adapters[a].outbox)>>]_vars

\* the first of three messages offered at once has been sent to both
\* subscribers of a sink; the other two wait for the timer
C14_Witness ==
    /\ adapters["json"].sockets = {1, 2}
    /\ Len(adapters["json"].outbox) = 2
    /\ drainTimers["json"] = <<DateNow + OUTBOUND_INTERVAL_MS>>
    /\ LastDelivered(1) = 1
    /\ LastDelivered(2) = 1

\* a step in which handleWebsocket attaches socket s
Attaches(s) == sock[s].phase = "init" /\ sock'[s].phase = "open"

\* C17 (late subscriber): a connection has been sent nothing before it
\* attaches; the attach sends it the greeting of its adapter and nothing else,
\* whatever its sink has queued, and leaves the queue as it was; the messages
\* it is sent afterwards come in increasing upstream order.
C17_GreetingFirst ==
    /\ [](\A s \in Sockets : sock[s].phase # "open" => received[s] = <<>>)
    /\ [][\A s \in Sockets :
             /\ Attaches(s) =>
                   /\ received'[s] = <<Greeting(sock'[s].adapter)>>
                   /\ adapters[sock'[s].adapter].present =>
                          adapters'[sock'[s].adapter].outbox =
                              adapters[sock'[s].adapter].outbox
             /\ LastDelivered(s) # 0 /\ LastDelivered(s)' # 0 =>
                   LastDelivered(s)' >= LastDelivered(s)]_vars

\* connection 2 has just attached to the running session: it has the greeting,
\* while connection 1 has message 1 and messages 2 and 3 are queued in the sink
C17_Witness ==
    /\ received[2] = <<Greeting("json")>>
    /\ LastDelivered(1) = 1
    /\ adapters["json"].sockets = {1, 2}
    /\ Len(adapters["json"].outbox) = 2

\* the numbers of the messages queued in a sink's outbox
Queued(a) == SelectSeq(adapters[a].outbox, IsMessage)

\* C18 (ordering): in every sink the queued messages are, in order, the last
\* ones served - all messages of a response are queued in upstream order when
\* the response is processed, before the next poll - and the message a
\* subscriber with a working connection was sent last is the one right before
\* the queued ones: a sink sends the head of its queue to every subscriber,
\* never out of order and never twice.
C18_Ordering ==
    \A a \in AdapterNames :
        /\ \A i \in 1..Len(Queued(a)) :
              Queued(a)[i].message = served - Len(Queued(a)) + i
        /\ \A s \in Healthy(a) :
              LastDelivered(s) # 0 => LastDelivered(s) = served - Len(Queued(a))

\* both subscribers of a sink have been sent message 2 after message 1, and
\* message 3 is queued
C18_Witness ==
    /\ Healthy("json") = {1, 2}
    /\ LastDelivered(1) = 2
    /\ LastDelivered(2) = 2
    /\ Len(Queued("json")) = 1
    /\ Queued("json")[1].message = 3

\* a step in which the interval callback runs
PingStep == pingAt <= DateNow /\ pingAt' = DateNow + PING_INTERVAL_MS

\* C19 (keepalive): the interval callback runs 30 000 ms after the session was
\* constructed and every 30 000 ms after; when it runs, every attached
\* subscriber with a working connection in every sink is sent a ping at once,
\* no outbox, draining flag or drain timer changes, and nobody else is sent
\* anything; no ping is ever queued in an outbox.
C19_Keepalive ==
    /\ [](pingAt \in 0..PING_INTERVAL_MS)
    /\ [](\A a \in AdapterNames :
            \A i \in 1..Len(adapters[a].outbox) : adapters[a].outbox[i] # Ping)
    /\ [][PingStep =>
             /\ \A s \in Sockets :
                   received'[s] =
                       IF s \in Attached /\ ~sock[s].broken THEN <<Ping>>
                       ELSE received[s]
             /\ adapters' = adapters
             /\ drainTimers' = drainTimers]_vars
    /\ [][(\E s \in Sockets : received'[s] = <<Ping>> /\ received[s] # <<Ping>>) =>
             PingStep]_vars

\* a ping has reached the subscribers of both sinks ahead of two messages
\* queued in each sink
C19_Witness ==
    /\ adapters["json"].sockets = {1}
    /\ adapters["irc"].sockets = {2}
    /\ received[1] = <<Ping>>
    /\ received[2] = <<Ping>>
    /\ Len(adapters["json"].outbox) = 2
    /\ Len(adapters["irc"].outbox) = 2

\* C20 (send-failure isolation): when a ping broadcast or a drain step sends a
\* payload to a sink with a subscriber whose socket.send throws, every other
\* subscriber of the sink is sent the payload, the step completes (the outbox
\* loses its head and the drain timer is armed again; the ping interval goes
\* on), close() is called on the failing connection and on no other, and the
\* failing connection stays in the sink until its close or error event runs.
C20_SendFailureIsolation ==
    /\ [](closed \subseteq {s \in Sockets : sock[s].broken})
    /\ [][\A a \in AdapterNames :
             (drainTimerFires(a) /\ adapters[a].outbox # <<>>) =>
                /\ \A s \in Healthy(a) : received'[s] = <<Head(adapters[a].outbox)>>
                /\ closed' = closed \cup (adapters[a].sockets \ Healthy(a))
                /\ adapters'[a] = [adapters[a] EXCEPT !.outbox = Tail(@)]
                /\ drainTimers'[a] = <<DateNow + OUTBOUND_INTERVAL_MS>>]_vars
    /\ [][PingStep =>
             /\ \A a \in AdapterNames : \A s \in Healthy(a) : received'[s] = <<Ping>>
             /\ closed' = closed \cup {s \in Attached : sock[s].broken}
             /\ adapters' = adapters]_vars

\* the connection of subscriber 1 has failed: a ping and then a queued message
\* were sent to subscriber 2 of the same sink, close() was called on
\* connection 1, which is still in the sink
C20_Witness ==
    /\ adapters["json"].sockets = {1, 2}
    /\ sock[1].broken
    /\ 1 \in closed
    /\ 2 \notin closed
    /\ received[1] = <<Ping>>
    /\ LastDelivered(2) = 2

(***************************************************************************)
(* SpecDedup: one subscriber; each OK response carries one message whose   *)
(* action has an id on its item: the next id not served before - ids are   *)
(* served in the order Id(1), Id(2), ... - or again the oldest or the      *)
(* newest id of the window.                                                *)
(***************************************************************************)
Id(n) == "m" \o ToString(n)

\* the number of distinct ids served so far
Distinct ==
    IF recentMessageIds = <<>> THEN 0
    ELSE CHOOSE k \in 1..MaxIds : Id(k) = Last(recentMessageIds)

DedupIds ==
    {k \in {Distinct + 1} : k <= MaxIds}
        \cup {k \in {Distinct - Len(recentMessageIds) + 1, Distinct} :
                 k >= 1 /\ served - Distinct < MaxMsgs}
DedupResponses ==
    {Ok(Data(<<Entry(Cont("T0", 2500), NoCont, NoCont)>>, "T0",
             <<Action(NoTs, Id(k), Id(k), NoTs, k)>>)) : k \in DedupIds}

NextDedup ==
    \/ \E vd \in {[found |-> TRUE, token |-> "T0"]} : Punctual /\ handleInit(1, vd)
    \/ Punctual /\ handleWebsocket(1, "json")
    \/ \E t \in TickIds : Punctual /\ alarmFires(t)
    \/ \E t \in TickIds, r \in DedupResponses : Punctual /\ chatResponse(t, r)
    \/ \E a \in AdapterNames : drainTimerFires(a)
    \/ \E d \in OutboxSteps : Punctual /\ alarm # NoAlarm /\ alarm > DateNow /\ Advance(d)

SpecDedup == InitWith(1) /\ [][NextDedup]_vars

\* C15 (dedup window): the window holds at most 50 ids: the last min(50, n) of
\* the n distinct ids seen, in the order of their first sight, whatever was
\* repeated in between - so what a 51st id evicts is the oldest-inserted id;
\* an id not in the window is admitted (its message is broadcast with that id),
\* an id in the window is not (the window stays as it is, nothing is
\* broadcast).
C15_DedupWindow ==
    /\ [](/\ Len(recentMessageIds) = Min(50, Distinct)
          /\ \A i \in 1..Len(recentMessageIds) :
                recentMessageIds[i] = Id(Distinct - Len(recentMessageIds) + i))
    /\ [][served' = served + 1 =>
             IF recentMessageIds' # recentMessageIds
             THEN /\ ~InSeq(Last(recentMessageIds'), recentMessageIds)
                  /\ \A s \in Attached :
                        /\ IsMessage(Last(received'[s]))
                        /\ Last(received'[s]).id = Last(recentMessageIds')
             ELSE /\ received' = received
                  /\ adapters' = adapters]_vars

\* 52 distinct ids were served and the oldest id of the window was served
\* again: the window holds Id(3) .. Id(52)
C15_Witness ==
    /\ Len(recentMessageIds) = 50
    /\ Head(recentMessageIds) = Id(3)
    /\ Last(recentMessageIds) = Id(52)
    /\ served > 52
    /\ hasActiveSockets

(***************************************************************************)
(* The front door: getStream, createChatObject, /init and /ws              *)
(***************************************************************************)
\* C21 (bootstrap failure): a session init that cannot obtain an initial
\* continuation from the bootstrap data is answered with a non-2xx response and
\* no subscriber is attached to the session: every attached subscriber is
\* attached to an initialized session that has a continuation.
C21_NoAttachToFailedInit ==
    \A s \in Attached : initialized /\ nextContinuationToken # NoToken

(***************************************************************************)
(* The envelope of a text message, and a batch with a malformed action     *)
(***************************************************************************)
\* C22 (envelope content): the envelope delivered for a text-message action of
\* the upstream shape has the renderer's id as its id, the run text as its
\* message, and the renderer's timestampUsec / 1000 as its unix.  An envelope's
\* unix is measured from the instant of its receipt, and every renderer
\* timestamp SpecChat serves lies 5000 ms or more before that instant.
C22_EnvelopeContent ==
    \A s \in Attached : \A i \in MessagesOf(s) :
        Stream(s)[i].message.upstream =>
            /\ Stream(s)[i].id = Stream(s)[i].message.rid
            /\ Stream(s)[i].unix + BARRIER_GRACE_MS <= DateNow

\* SpecParse: one subscriber; the upstream answers polls with text messages
\* numbered in the order served, and with batches in which one action's
\* message.runs is not an array.
ParseResponses ==
    LET Malformed == [Upstream("bad", NoTs, 0) EXCEPT !.badRuns = TRUE]
        Numbered(n) == Upstream(Id(n), NoTs, n)
        batches == {<<Numbered(served + 1)>>,
                    <<Malformed, Numbered(served + 2)>>,
                    <<Numbered(served + 1), Malformed>>}
    IN  {Ok(Data(<<Entry(Cont("T0", 2500), NoCont, NoCont)>>, "T0", b)) :
            b \in {c \in batches : served + Len(c) <= MaxMsgs}}

ParseChatAnswer == \E t \in TickIds, r \in ParseResponses : Punctual /\ chatResponse(t, r)

NextParse ==
    \/ DeadmanInit
    \/ DeadmanAttach
    \/ DeadmanTick
    \/ DeadmanHealAnswer
    \/ ParseChatAnswer
    \/ DeadmanDrain
    \/ DeadmanClock

SpecParse == InitWith(1) /\ [][NextParse]_vars

\* C23 (per-action parse failures): when processing one action of a response
\* throws, that action alone is skipped: every other text message of the response
\* is fanned out to every subscriber, and the tick counts as a successful poll -
\* lastOkFetchTime is the time of the response and the next tick is due after
\* the delay the response asks for.
C23_BadActionSkipped ==
    [][\A t \in TickIds, r \in ParseResponses :
          chatResponse(t, r) =>
              /\ lastOkFetchTime' = DateNow
              /\ alarm' = DateNow + 2500
              /\ \A s \in Attached : \A k \in 1..Len(r.data.actions) :
                    ~r.data.actions[k].badRuns =>
                        \E i \in 1..Len(Stream(s)') :
                            Stream(s)'[i] =
                                Message(r.data.actions[k].text, NoToken, DateNow)]_vars

(***************************************************************************)
(* Init on an initialized session, and the tick an attach leaves pending   *)
(***************************************************************************)
\* C24 (duplicate init): /init on an already initialized session, whatever its
\* body, leaves the continuation, the bootstrap fields, lastOkFetchTime,
\* bootTime, the dedup window, healBackoffMs and nextHealAllowedAt, the sinks
\* with their outboxes and timers, what the subscribers were sent, and the alarm
\* unchanged.
C24_DuplicateInitNoOp ==
    [][\A s \in Sockets :
          sock[s].phase = "new" /\ sock'[s].phase = "init" /\ initialized =>
              UNCHANGED <<initialized, nextContinuationToken, apiKey, lastOkFetchTime,
                          bootTime, recentMessageIds, healBackoffMs, nextHealAllowedAt,
                          adapters, drainTimers, received, closed, alarm>>]_vars

\* the second connection's /init has run on the session the first connection
\* initialized and is subscribed to, with an alarm pending
C24_Witness ==
    /\ sock[2].phase = "init"
    /\ sock[1].phase = "open"
    /\ 1 \in Attached
    /\ initialized
    /\ apiKey = BootKey
    /\ received[1] # <<>>
    /\ alarm # NoAlarm

\* C25 (attach schedules a tick): every attach - the first, one to a running
\* session, one after the session drained - leaves the alarm pending, due no
\* later than 1000 ms after the attach.
C25_AttachSchedules ==
    [][\A s \in Sockets :
          Attaches(s) => alarm' # NoAlarm /\ alarm' <= DateNow + ATTACH_DELAY]_vars

\* connection 1 has left, and connection 2 has just attached as the only
\* subscriber of the initialized session: a tick is due in 1000 ms
C25_Witness ==
    /\ sock[1].cleanups > 0
    /\ Attached = {2}
    /\ initialized
    /\ lastOkFetchTime < DateNow
    /\ alarm = DateNow + ATTACH_DELAY

(***************************************************************************)
(* The heal: when it runs, and the state it leaves                         *)
(***************************************************************************)
\* C26 (deadman gating): a tick runs the heal if and only if, at its start, the
\* session is initialized with a continuation, has subscribers, more than
\* 45 000 ms have passed since lastOkFetchTime, and nextHealAllowedAt has come;
\* otherwise a tick of a ready session with subscribers polls with the current
\* continuation.
C26_DeadmanGating ==
    [][\A t \in TickIds :
          alarmFires(t) =>
              LET ready == /\ initialized
                           /\ nextContinuationToken # NoToken
                           /\ hasActiveSockets
                  heals == HealStarts(t) \/ nextHealAllowedAt' # nextHealAllowedAt
              IN  /\ heals <=> /\ ready
                               /\ DateNow - lastOkFetchTime > DEADMAN_MS
                               /\ DateNow >= nextHealAllowedAt
                  /\ ready /\ ~heals =>
                        /\ ticks'[t].pc = "chatFetch"
                        /\ ticks'[t].token = nextContinuationToken]_vars

\* past the deadman but before nextHealAllowedAt, a tick has just issued a chat
\* poll with the current continuation
C26_Witness ==
    \E t \in TickIds :
        /\ ticks[t].pc = "chatFetch"
        /\ ticks[t].now = DateNow
        /\ ticks[t].token = nextContinuationToken
        /\ DateNow - lastOkFetchTime > DEADMAN_MS
        /\ DateNow < nextHealAllowedAt

\* C27 (heal success post-state): when the heal's page fetch answers with a page
\* that has a continuation, the session's continuation is that of the page,
\* lastOkFetchTime and bootTime are the time of the answer, healBackoffMs is
\* 5000, and nextHealAllowedAt is the `now` of the tick plus 5000 (a time
\* already past counts as the present).
C27_HealSuccess ==
    [][\A t \in TickIds, page \in DeadmanPages :
          healResponse(t, page) /\ page.ok /\ page.token # NoToken =>
              /\ nextContinuationToken' = page.token
              /\ lastOkFetchTime' = DateNow
              /\ bootTime' = DateNow
              /\ healBackoffMs' = HEAL_BACKOFF_INIT
              /\ nextHealAllowedAt' = Max(ticks[t].now + HEAL_COOLDOWN_MS, DateNow)]_vars

\* after failed heals, a heal whose fetch was answered at once has succeeded
C27_Witness ==
    \E t \in TickIds :
        /\ ticks[t].pc = "chatFetch"
        /\ ticks[t].now = DateNow
        /\ nextContinuationToken = "T1"
        /\ lastOkFetchTime = DateNow /\ bootTime = DateNow
        /\ healBackoffMs = HEAL_BACKOFF_INIT
        /\ nextHealAllowedAt = DateNow + HEAL_COOLDOWN_MS
        /\ obs.healWait > HEAL_BACKOFF_INIT

\* C28 (heal replaces the bootstrap): once a heal has succeeded, apiKey,
\* clientVersion, visitorData and initialData are those of the page the heal
\* scraped, and every chat poll issued from then on is built from them.
C28_HealReplacesBootstrap ==
    \A t \in TickIds :
        ticks[t].pc = "chatFetch" /\ obs.healToken # NoToken => apiKey = HealKey

\* C29 (heal failure): when the heal's page fetch fails or its page has no
\* continuation, healBackoffMs is doubled up to 60 000, nextHealAllowedAt is the
\* `now` of the tick plus the new healBackoffMs, the failure line is broadcast to
\* every subscriber, the tick ends without a chat poll and the alarm is set the
\* new healBackoffMs ahead; the continuation, lastOkFetchTime, bootTime and the
\* bootstrap fields are unchanged.
C29_HealFailure ==
    [][\A t \in TickIds, page \in DeadmanPages :
          healResponse(t, page) /\ ~(page.ok /\ page.token # NoToken) =>
              /\ healBackoffMs' = Min(2 * healBackoffMs, HEAL_BACKOFF_MAX)
              /\ nextHealAllowedAt' = Max(ticks[t].now + healBackoffMs', DateNow)
              /\ \A s \in Attached : NewestFor(s, Debug("[AUTO-HEAL] Failed."))'
              /\ ticks'[t].pc = "idle" /\ InFlight' = 0
              /\ alarm' = DateNow + healBackoffMs'
              /\ UNCHANGED <<nextContinuationToken, lastOkFetchTime, bootTime, apiKey,
                             initialized>>]_vars

\* the third heal in a row has failed, its fetch answered after 5 s: the backoff
\* is 40 000 ms, the next heal allowed 35 000 ms from now, the alarm 40 000 ms ahead
C29_Witness ==
    /\ obs.healFails = 3
    /\ healBackoffMs = 40000
    /\ nextHealAllowedAt = DateNow + 35000
    /\ alarm = DateNow + 40000
    /\ ~TickRunning
    /\ received[1] = <<Debug("[AUTO-HEAL] Failed.")>>
    /\ apiKey = BootKey

(***************************************************************************)
(* A failed poll                                                           *)
(***************************************************************************)
\* C30 (transient poll error): when the chat POST fails - non-2xx status,
\* throttled, aborted after 10 s, or a transport error - a debug line naming the
\* failure is enqueued to every sink, the tick is requeued exactly 5000 ms
\* ahead, and the continuation, lastOkFetchTime, bootTime, healBackoffMs,
\* nextHealAllowedAt and the dedup window are unchanged.
C30_TransientPollError ==
    [][\A t \in TickIds, r \in ErrorResponses :
          chatResponse(t, r) /\ r.kind # "ok" =>
              /\ \A s \in Attached :
                    NewestFor(s, Debug(IF r.kind = "throttled"
                                       THEN "[FETCH] Subrequest limit hit."
                                       ELSE "[FETCH] " \o r.kind))'
              /\ alarm' = DateNow + ERROR_DELAY
              /\ UNCHANGED <<nextContinuationToken, lastOkFetchTime, bootTime,
                             healBackoffMs, nextHealAllowedAt, recentMessageIds>>]_vars

\* a poll has just failed as throttled, 30 s after the last OK one
C30_Witness ==
    /\ ~TickRunning
    /\ received[1] = <<Debug("[FETCH] Subrequest limit hit.")>>
    /\ alarm = DateNow + ERROR_DELAY
    /\ lastOkFetchTime = DateNow - 30000
    /\ nextContinuationToken = "T0"

(***************************************************************************)
(* SpecPoll: one subscriber; OK responses whose continuation asks for a    *)
(* short, an ordinary, a long or no timeout, or that have a continuation   *)
(* only outside continuations[]; their text messages, numbered, sit in     *)
(* continuationContents.liveChatContinuation.actions or in the             *)
(* continuationItems of an onResponseReceivedEndpoints entry.              *)
(***************************************************************************)
PollResponses ==
    LET conts == {<<Entry(Cont("T0", ms), NoCont, NoCont)>> :
                     ms \in {500, 2500, 30000, NoTimeout}} \cup {<<>>}
        item(n) == Upstream(Id(n), NoTs, n)
        \* actions, appendContinuationItemsAction.continuationItems,
        \* reloadContinuationItemsCommand.continuationItems
        places == {<< <<item(served + 1)>>, <<>>, <<>> >>,
                   << <<>>, <<item(served + 1)>>, <<>> >>,
                   << <<>>, <<>>, <<item(served + 1)>> >>}
    IN  {[kind |-> "ok",
          data |-> [continuations |-> c, scan |-> "T0", actions |-> pl[1],
                    appended |-> pl[2], reloaded |-> pl[3]]] :
            c \in conts, pl \in places}

PollChatAnswer ==
    \E t \in TickIds, r \in PollResponses :
        Punctual /\ served < MaxMsgs /\ chatResponse(t, r)

NextPoll ==
    \/ DeadmanInit
    \/ DeadmanAttach
    \/ DeadmanTick
    \/ DeadmanHealAnswer
    \/ PollChatAnswer
    \/ DeadmanDrain
    \/ DeadmanClock

SpecPoll == InitWith(1) /\ [][NextPoll]_vars

\* C31 (poll delay): after an OK response the alarm is set to now plus the
\* timeoutMs of the response's continuation, raised to 1000 and lowered to
\* 20 000, when that continuation has a timeoutMs, and to now + 3000 otherwise;
\* and whatever sets the alarm sets it 1000 ms ahead or more.
C31_PollDelay ==
    /\ [][\A t \in TickIds, r \in PollResponses :
             chatResponse(t, r) =>
                 LET c == r.data.continuations
                     ms == IF c = <<>> THEN NoTimeout
                           ELSE c[1].timedContinuationData.timeoutMs
                 IN  alarm' = DateNow + (IF ms = NoTimeout THEN 3000
                                         ELSE IF ms < 1000 THEN 1000
                                         ELSE IF ms > 20000 THEN 20000
                                         ELSE ms)]_vars
    /\ [][\/ \E d \in DeadmanSteps : Advance(d)
          \/ alarm' = alarm
          \/ alarm' = NoAlarm
          \/ alarm' >= DateNow + 1000]_vars

\* polls have just been answered asking for 500 ms and for 30 000 ms: the
\* alarm is 1000 ms, respectively 20 000 ms, ahead
C31_Witness ==
    /\ ~TickRunning
    /\ lastOkFetchTime = DateNow
    /\ served > 0
    /\ alarm \in {DateNow + MIN_CHAT_INTERVAL, DateNow + MAX_CHAT_INTERVAL}

\* C35 (event extraction): every text message of an OK response - in
\* continuationContents.liveChatContinuation.actions, in the continuationItems
\* of an appendContinuationItemsAction or of a reloadContinuationItemsCommand
\* of onResponseReceivedEndpoints - that passes the time barrier and the dedup
\* window is fanned out to every subscriber.
C35_AllLocationsExtracted ==
    [][\A t \in TickIds, r \in PollResponses :
          chatResponse(t, r) =>
              LET found == r.data.actions \o r.data.appended \o r.data.reloaded
              IN  \A s \in Attached : \A k \in 1..Len(found) :
                      \E i \in 1..Len(Stream(s)') :
                          Stream(s)'[i] = Message(found[k].text, NoToken, DateNow)]_vars

(***************************************************************************)
(* Ticks of a session that is not ready                                    *)
(***************************************************************************)
\* C32 (not ready): a tick that finds the session uninitialized or without a
\* continuation issues no request, neither heal nor poll, and with subscribers
\* attached sets the alarm 2000 ms ahead; and no chat poll in flight carries an
\* empty continuation.
C32_NotReady ==
    /\ [](\A t \in TickIds : ticks[t].pc = "chatFetch" => ticks[t].token # NoToken)
    /\ [][\A t \in TickIds :
             alarmFires(t) /\ (~initialized \/ nextContinuationToken = NoToken) =>
                 /\ InFlight' = 0
                 /\ ~TickRunning'
                 /\ hasActiveSockets => alarm' = DateNow + NOT_READY_DELAY]_vars

\* a subscriber is attached to a session initialized without a continuation,
\* and a tick has just requeued itself
C32_Witness ==
    /\ initialized
    /\ nextContinuationToken = NoToken
    /\ hasActiveSockets
    /\ ~TickRunning
    /\ alarm = DateNow + NOT_READY_DELAY

(***************************************************************************)
(* The drain chain of a sink                                               *)
(***************************************************************************)
\* C33 (single drain task): a sink has at most one drain timer pending, and has
\* one exactly while its draining flag is set; a sink that is not registered
\* has none.  When the timer of a sink fires, the chain goes on - one new
\* timer - if the outbox holds a payload, and stops, with the flag reset,
\* if it is empty.  A step that enqueues payloads to a sink starts a chain if
\* none is active and leaves the pending timer alone if one is.  The timer left
\* by a sink that lost its last subscriber sends nothing and arms no timer.
C33_SingleDrain ==
    /\ [](\A a \in AdapterNames :
            /\ Len(drainTimers[a]) <= 1
            /\ adapters[a].draining <=> drainTimers[a] # <<>>
            /\ ~adapters[a].present => drainTimers[a] = <<>>)
    /\ [][\A a \in AdapterNames :
             drainTimerFires(a) =>
                 IF adapters[a].outbox # <<>>
                 THEN drainTimers'[a] = <<DateNow + OUTBOUND_INTERVAL_MS>>
                 ELSE drainTimers'[a] = <<>> /\ ~adapters'[a].draining]_vars
    /\ [][LET enqueues ==
                 \/ \E t \in TickIds : HealStarts(t)
                 \/ \E t \in TickIds, r \in SinkResponses :
                       chatResponse(t, r) /\ r.data.actions # <<>>
          IN  \A a \in AdapterNames :
                  adapters[a].present /\ enqueues =>
                      IF drainTimers[a] = <<>>
                      THEN drainTimers'[a] = <<DateNow + OUTBOUND_INTERVAL_MS>>
                      ELSE drainTimers'[a] = drainTimers[a]]_vars
    /\ [][staleTimerFires =>
             /\ Len(staleTimers') = Len(staleTimers) - 1
             /\ UNCHANGED <<adapters, drainTimers, received>>]_vars

\* the chain of sink json stopped after message 1, and the response that just
\* brought message 2 alone has started a new one
C33_Witness ==
    /\ served = 2
    /\ lastOkFetchTime = DateNow
    /\ LastDelivered(1) = 2
    /\ adapters["json"].outbox = <<>>
    /\ adapters["json"].draining
    /\ drainTimers["json"] = <<DateNow + OUTBOUND_INTERVAL_MS>>
    /\ alarm = DateNow + 2500

(***************************************************************************)
(* Detach                                                                  *)
(***************************************************************************)
\* C34 (detach frame): the cleanup of a connection changes, of the sinks, only
\* the one it attached under - the connection leaves its subscriber set, and the
\* sink goes with its outbox if that set becomes empty; the other sinks, what
\* the subscribers were sent, the continuation, the dedup window,
\* lastOkFetchTime, bootTime and the heal counters are unchanged, and the alarm
\* is unchanged unless no subscriber is left.
C34_DetachFrame ==
    [][\A s \in Sockets :
          cleanup(s) =>
              LET name == sock[s].adapter
                  left == adapters[name].sockets \ {s}
              IN  /\ \A a \in AdapterNames \ {name} :
                        adapters'[a] = adapters[a] /\ drainTimers'[a] = drainTimers[a]
                  /\ adapters'[name] =
                        IF left = {} THEN NoAdapter
                        ELSE [adapters[name] EXCEPT !.sockets = left]
                  /\ UNCHANGED <<initialized, nextContinuationToken, recentMessageIds,
                                 lastOkFetchTime, bootTime, healBackoffMs,
                                 nextHealAllowedAt, apiKey, received>>
                  /\ hasActiveSockets' => alarm' = alarm]_vars

\* connection 1 has left and its sink json is gone, while sink irc still has
\* connection 2, a queued payload, its drain timer and the alarm
C34_Witness ==
    /\ sock[1].cleanups = 1
    /\ sock[1].adapter = "json"
    /\ adapters["json"] = NoAdapter
    /\ adapters["irc"].sockets = {2}
    /\ adapters["irc"].outbox # <<>>
    /\ drainTimers["irc"] # <<>>
    /\ alarm # NoAlarm

(***************************************************************************)
(* The continuation over the life of a session                             *)
(***************************************************************************)
\* C36 (continuation never lost): a continuation that is not empty is never
\* replaced by an empty one, and the continuation changes only in an init of a
\* session not yet initialized, in an OK poll whose response has a
\* continuation somewhere, or in a successful heal; an OK response without any
\* continuation, a failed poll, a failed heal and an attach leave it as it is.
C36_ContinuationKept ==
    /\ [][nextContinuationToken # NoToken => nextContinuationToken' # NoToken]_vars
    /\ [][nextContinuationToken' # nextContinuationToken =>
             \/ ~initialized /\ initialized'
             \/ \E t \in TickIds, r \in ContResponses :
                   /\ chatResponse(t, r)
                   /\ r.kind = "ok"
                   /\ \/ r.data.scan # NoToken
                      \/ \E k \in 1..Len(r.data.continuations) :
                            HasAnyContinuation(r.data.continuations[k])
             \/ \E t \in TickIds, page \in ContPages :
                   healResponse(t, page) /\ page.ok /\ page.token # NoToken]_vars

\* the last response was OK and had no continuation at all: the session still
\* holds the continuation "T1" of an earlier response
C36_Witness ==
    /\ obs.stalled
    /\ lastOkFetchTime = DateNow
    /\ ~TickRunning
    /\ nextContinuationToken = "T1"

(***************************************************************************)
(* Attaching to a session that has a tick pending or has been idle         *)
(***************************************************************************)
\* C37 (attach replaces the deadline): an attach while an alarm is pending sets
\* the alarm to now + 1000 whatever it was - earlier when it was further ahead
\* (the delay the upstream asked for, the heal backoff), later when it was due
\* sooner, so each further attach puts the tick off again.
C37_AttachReplacesDeadline ==
    [][\A s \in Sockets :
          Attaches(s) /\ alarm # NoAlarm =>
              /\ alarm' = DateNow + ATTACH_DELAY
              /\ alarm > DateNow + ATTACH_DELAY => alarm' < alarm
              /\ alarm < DateNow + ATTACH_DELAY => alarm' > alarm]_vars

\* at the instant of a second failed heal, which left the alarm 20 000 ms
\* ahead, connection 2 has attached: the alarm is 1000 ms ahead
C37_Witness ==
    /\ healBackoffMs = 20000
    /\ nextHealAllowedAt = DateNow + 20000
    /\ Attached = {1, 2}
    /\ ~TickRunning
    /\ alarm = DateNow + ATTACH_DELAY

\* C38 (re-attach after a long pause): neither an /init on the initialized
\* session nor an attach changes lastOkFetchTime or nextHealAllowedAt, so a tick
\* that starts more than 45 000 ms after the last OK poll, with a subscriber and
\* nextHealAllowedAt reached, starts the heal and issues no chat poll with the
\* continuation the session held.
C38_ReattachHeals ==
    /\ [][\A s \in Sockets :
             \/ Attaches(s)
             \/ sock[s].phase = "new" /\ sock'[s].phase = "init" /\ initialized
             => UNCHANGED <<lastOkFetchTime, nextHealAllowedAt, nextContinuationToken>>]_vars
    /\ [][\A t \in TickIds :
             /\ alarmFires(t)
             /\ initialized /\ nextContinuationToken # NoToken /\ hasActiveSockets
             /\ DateNow - lastOkFetchTime > DEADMAN_MS
             /\ DateNow >= nextHealAllowedAt
             => HealStarts(t) /\ ChatRequests' = {}]_vars

\* connection 1 has left; connection 2 is the only subscriber, more than 45 s
\* after the last OK poll, and the tick after its attach has the heal's page
\* fetch in flight
C38_Witness ==
    /\ sock[1].cleanups > 0
    /\ Attached = {2}
    /\ DateNow - lastOkFetchTime > DEADMAN_MS
    /\ \E t \in TickIds : ticks[t].pc = "healFetch" /\ ticks[t].now = DateNow
    /\ ChatRequests = {}

(***************************************************************************)
(* A sink that is removed and created again                                *)
(***************************************************************************)
\* C39 (nothing survives a removed sink): the cleanup that takes the last
\* subscriber of a sink removes the sink with its outbox; a sink created by an
\* attach starts with that subscriber alone, an empty outbox, draining false
\* and no timer; a timer left over from a removed sink sends nothing; and
\* every message a subscriber is sent was, in the step that sends it, in the
\* outbox of the sink it is subscribed to or is enqueued to that sink in the
\* same step.  So no payload enqueued before a sink lost its last subscriber
\* reaches a subscriber that attaches under its name later.
C39_RemovedSinkForgets ==
    /\ [][\A s \in Sockets :
             cleanup(s) /\ adapters[sock[s].adapter].sockets = {s} =>
                 adapters'[sock[s].adapter] = NoAdapter]_vars
    /\ [][\A s \in Sockets :
             Attaches(s) /\ ~adapters[sock'[s].adapter].present =>
                 /\ adapters'[sock'[s].adapter] =
                       [present |-> TRUE, sockets |-> {s}, outbox |-> <<>>,
                        draining |-> FALSE]
                 /\ drainTimers'[sock'[s].adapter] = <<>>
                 /\ received'[s] = <<Greeting(sock'[s].adapter)>>]_vars
    /\ [][staleTimerFires => UNCHANGED <<received, adapters, drainTimers, closed>>]_vars
    /\ [][\A s \in Attached :
             LastDelivered(s)' # 0 /\ LastDelivered(s)' # LastDelivered(s) =>
                 \/ LastDelivered(s)' > served
                 \/ \E i \in 1..Len(Queued(SinkOf(s))) :
                       Queued(SinkOf(s))[i].message = LastDelivered(s)']_vars

\* sink json was removed with connection 1 while its drain timer was pending;
\* the timer is left over, and connection 2 has attached under json: the new
\* sink is empty and connection 2 has its greeting only
C39_Witness ==
    /\ sock[1].cleanups > 0
    /\ staleTimers # <<>>
    /\ served >= 2
    /\ adapters["json"] = [NewAdapter EXCEPT !.sockets = {2}]
    /\ received[2] = <<Greeting("json")>>

\* C40 (detach is idempotent): the second run of a connection's cleanup - for
\* its error event after its close event - changes nothing, whatever attached
\* in between: the sinks with their subscribers, outboxes and timers, also a
\* sink created again under the connection's adapter name, the alarm, what the
\* subscribers were sent, and the session's fields are as the first run left
\* them.
C40_DetachIdempotent ==
    [][\A s \in Sockets :
          cleanup(s) /\ sock[s].cleanups = 1 =>
              UNCHANGED <<sessionVars, adapters, drainTimers, staleTimers, alarm,
                          ticks, received, closed>>]_vars

\* the close and the error listener of connection 1 have both run; connection
\* 2, attached under the same name after the first of them, is still
\* subscribed, with a payload queued and the alarm pending
C40_Witness ==
    /\ sock[1].cleanups = 2
    /\ sock[2].adapter = sock[1].adapter
    /\ adapters[sock[1].adapter].sockets = {2}
    /\ adapters[sock[1].adapter].outbox # <<>>
    /\ drainTimers[sock[1].adapter] # <<>>
    /\ alarm # NoAlarm

====
